---- MODULE Spec2Model ----
(***************************************************************************)
(* Room-based messaging engine of rendezvous-server.                       *)
(*                                                                         *)
(* The repository holds several snapshots of the socket server.  Each one  *)
(* registers its own chat handlers; `snapshot` says which one is deployed: *)
(*   "chatEvents"   handleChatEvents          (mongoose models, slug index) *)
(*   "socketEvents" handleConnection          (native driver, unreadCounts) *)
(*   "messaging"    registerMessagingHandlers (dm:* events)                 *)
(*   "sessionChat"  registerChatHandlers      (chat:send on session rooms)  *)
(*                                                                         *)
(* A handler is a chain of steps, one per await: the persistence operation *)
(* the handler is suspended on takes effect, and the handler runs on to    *)
(* its next await.  Handlers of different sockets interleave freely.  A    *)
(* persistence operation throws while the store is unreachable.            *)
(***************************************************************************)
EXTENDS Integers, Sequences, FiniteSets, TLC

VARIABLES
    snapshot,       \* which server snapshot is deployed
    storeUp,        \* the document store is reachable
    conversations,  \* persisted Conversation rows, conversations[i].id = i
    messages,       \* persisted Message rows, messages[i].id = i
    rooms,          \* rooms[s]: conversation rooms socket s has joined
    inbox,          \* inbox[s]: events emitted to socket s, in order
    h,              \* h[s]: the handler socket s is suspended in
    joinPc,         \* position of the connect-time joinUserRooms of socket s
    ops,            \* handler invocations so far
    typingTimers,   \* the typingTimers map: timer key -> timeout handle
    timeouts,       \* the timeouts the runtime holds pending
    now,            \* the clock, in seconds
    allStaff,       \* the participants array of the All Staff conversation
    isOnline,       \* isOnline[u]: the persisted presence flag of user u
    orders,         \* persisted Order rows of today, orders[i]: order number
    tables,         \* tables[t]: the persisted Table row of table t
    tableSessions   \* persisted TableSession rows, tableSessions[i].id = i

vars ==
    <<snapshot, storeUp, conversations, messages, rooms, inbox, h, joinPc, ops,
      typingTimers, timeouts, now, allStaff, isOnline, orders, tables,
      tableSessions>>

timing == <<typingTimers, timeouts, now>>

\* what the chat handlers leave alone: presence, orders, tables
elsewhere == <<allStaff, isOnline, orders, tables, tableSessions>>

\* ----------------------------------------------------------------- bounds

MaxOps == 2

\* the clock stops here
MaxTime == 6

\* -------------------------------------------------------------- constants

MaxContentLength == 5000
PreviewLength == 13
PosRoom == -1

Users == {1, 2, 3}
Sessions == {1, 2, 3}

\* handshake.auth.userId of each socket: user 1 has two devices, user 3 none
UserOf(s) == IF s = 1 THEN 1 ELSE s - 1

\* a malformed conversation id
BadId == 0
ConvInputs == {BadId, 1, 2}

\* chat:join / chat:send name a session room by any string
SessionRooms == {1, 2}
Roles == {"customer", "staff"}

\* A message body: `lead`/`trail` whitespace characters around `core`
\* characters that begin and end with a non-space one.
Contents ==
    { [lead |-> 1, core |-> c, trail |-> 0] : c \in {0, 1, MaxContentLength + 1} }

\* chat:message:send payloads of socketEvents: a body and its attachments
ChatInputs ==
    {[content |-> [lead |-> 1, core |-> c, trail |-> 0], atts |-> 0] : c \in {0, 1}}
    \cup {[content |-> [lead |-> 1, core |-> 0, trail |-> 0], atts |-> 1]}

trim(content) == [lead |-> 0, core |-> content.core, trail |-> 0]
length(content) == content.lead + content.core + content.trail

NoContent == [lead |-> 0, core |-> 0, trail |-> 0]
AttachmentPreview == [lead |-> 0, core |-> PreviewLength, trail |-> 0]

isValidId(id) == id # BadId

ALL_STAFF_SLUG == <<"group", 0, 0>>

NoLast == [content |-> NoContent, sender |-> 0, at |-> 0]

NoDoc ==
    [id |-> 0, type |-> "none", slug |-> <<>>, participants |-> {},
     unread |-> [u \in Users |-> 0], last |-> NoLast, updatedAt |-> 0]

NoMessage ==
    [id |-> 0, conv |-> 0, sender |-> 0, content |-> NoContent, atts |-> 0,
     readBy |-> {}]

\* The locals of a suspended handler: its payload (conv, content, atts, role,
\* target), the conversation it fetched (doc) and the message it created (msg).
Idle ==
    [op |-> "idle", pc |-> "idle", conv |-> 0, content |-> NoContent,
     atts |-> 0, role |-> "none", target |-> 0, doc |-> NoDoc, msg |-> NoMessage,
     cursor |-> 0, limit |-> 0, page |-> <<>>,
     count |-> 0, table |-> 0, session |-> 0]

\* ----------------------------------------------------- messaging: typing timers

\* setTimeout(..., 3000), in seconds
TypingTimeout == 3

\* no timeout handle
NoHandle == 0

\* `${conversationId}:${userId}`
timerKey(c, u) == <<c, u>>

TimerKeys == {timerKey(c, u) : c \in {1, 2}, u \in Users}

NoTimers == [k \in TimerKeys |-> NoHandle]

\* ------------------------------------------------------------------ events

\* An emitted event: its name, and what its payload carries of a message
\* (id, sender, content, readBy), of a read receipt (ids) or of an error (kind).
Event(ev, kind, conv, id, sender, content, readBy, ids) ==
    [ev |-> ev, kind |-> kind, conv |-> conv, id |-> id, sender |-> sender,
     content |-> content, readBy |-> readBy, ids |-> ids,
     page |-> <<>>, hasMore |-> FALSE]

ErrorEvent(kind) == Event("error", kind, 0, 0, 0, NoContent, {}, {})

\* toWireMessage / outbound: the message as the new-message event carries it
NewMessageEvent(m) ==
    Event("message", "new", m.conv, m.id, m.sender, m.content, m.readBy, {})

\* socket.emit(event, payload)
emit(box, s, e) == [box EXCEPT ![s] = Append(@, e)]

\* an emit that leaves the emitting socket out
broadcastToOthers(box, s, c, e) ==
    [t \in Sessions |->
        IF c \in rooms[t] /\ t # s THEN Append(box[t], e) ELSE box[t]]

\* io.to(room).emit(event, payload): every socket in the room
broadcast(box, s, c, e) ==
    [t \in Sessions |-> IF c \in rooms[t] THEN Append(box[t], e) ELSE box[t]]

\* ------------------------------------------------------------- persistence

ConvIds == 1..Len(conversations)

\* a lookup by _id alone
findConversationById(c, u) ==
    IF c \in ConvIds THEN conversations[c] ELSE NoDoc

\* findOne({ _id: conversationId, participants: userId })
findConversation(c, u) ==
    IF c \in ConvIds /\ u \in conversations[c].participants
    THEN conversations[c] ELSE NoDoc

\* the Message row a send persists
NewMessage(c, u, content, atts, readBy) ==
    [id |-> Len(messages) + 1, conv |-> c, sender |-> u, content |-> content,
     atts |-> atts, readBy |-> readBy]

done(s) == [h EXCEPT ![s] = Idle]

\* a client event reaches an idle socket
Invoke(s) ==
    /\ h[s].op = "idle"
    /\ ops < MaxOps
    /\ ops' = ops + 1

\* ------------------------------------------------ chatEvents: send message

\* handleMessageSend up to its first await (validation)
MessageSendStart(s, c, content) ==
    /\ snapshot = "chatEvents"
    /\ Invoke(s)
    /\ IF ~isValidId(c)
       THEN /\ inbox' = emit(inbox, s, ErrorEvent("invalid_id"))
            /\ h' = h
       ELSE IF trim(content).core = 0 \/ length(trim(content)) > MaxContentLength
       THEN /\ inbox' = emit(inbox, s, ErrorEvent("invalid_content"))
            /\ h' = h
       ELSE /\ inbox' = inbox
            /\ h' = [h EXCEPT ![s] = [Idle EXCEPT !.op = "send", !.pc = "find",
                                         !.conv = c, !.content = trim(content)]]
    /\ UNCHANGED <<snapshot, storeUp, conversations, messages, rooms, joinPc>>
    /\ UNCHANGED timing
    /\ UNCHANGED elsewhere

\* ConversationModel.findOne resolves; a rejection is logged by the caller
MessageSendFind(s) ==
    /\ snapshot = "chatEvents"
    /\ h[s].op = "send" /\ h[s].pc = "find"
    /\ LET conv == findConversation(h[s].conv, UserOf(s)) IN
       IF ~storeUp
       THEN h' = done(s) /\ inbox' = inbox
       ELSE IF conv = NoDoc
       THEN h' = done(s) /\ inbox' = emit(inbox, s, ErrorEvent("denied"))
       ELSE /\ h' = [h EXCEPT ![s].pc = "create", ![s].doc = conv]
            /\ inbox' = inbox
    /\ UNCHANGED <<snapshot, storeUp, conversations, messages, rooms, joinPc, ops>>
    /\ UNCHANGED timing
    /\ UNCHANGED elsewhere

\* a create that announces the message before the store has answered
MessageSendAnnounceFirst(s) ==
    /\ snapshot = "chatEvents"
    /\ h[s].op = "send" /\ h[s].pc = "create"
    /\ LET m == NewMessage(h[s].conv, UserOf(s), h[s].content, 0, {UserOf(s)}) IN
         /\ inbox' = broadcast(inbox, s, h[s].conv, NewMessageEvent(m))
         /\ IF ~storeUp
            THEN h' = done(s) /\ messages' = messages
            ELSE /\ messages' = Append(messages, m)
                 /\ h' = [h EXCEPT ![s].pc = "update", ![s].msg = m]
    /\ UNCHANGED <<snapshot, storeUp, conversations, rooms, joinPc, ops>>
    /\ UNCHANGED timing
    /\ UNCHANGED elsewhere

\* MessageModel.create resolves
MessageSendCreate(s) ==
    /\ snapshot = "chatEvents"
    /\ h[s].op = "send" /\ h[s].pc = "create"
    /\ IF ~storeUp
       THEN h' = done(s) /\ messages' = messages
       ELSE LET m == NewMessage(h[s].conv, UserOf(s), h[s].content, 0, {UserOf(s)})
            IN /\ messages' = Append(messages, m)
               /\ h' = [h EXCEPT ![s].pc = "update", ![s].msg = m]
    /\ UNCHANGED <<snapshot, storeUp, conversations, rooms, inbox, joinPc, ops>>
    /\ UNCHANGED timing
    /\ UNCHANGED elsewhere

\* ConversationModel.findByIdAndUpdate resolves
MessageSendUpdate(s) ==
    /\ snapshot = "chatEvents"
    /\ h[s].op = "send" /\ h[s].pc = "update"
    /\ IF ~storeUp
       THEN h' = done(s) /\ conversations' = conversations
       ELSE /\ conversations' =
                 [conversations EXCEPT
                    ![h[s].conv].last =
                        [content |-> h[s].content, sender |-> UserOf(s),
                         at |-> h[s].msg.id],
                    ![h[s].conv].updatedAt = @ + 1]
            /\ h' = [h EXCEPT ![s].pc = "emit"]
    /\ UNCHANGED <<snapshot, storeUp, messages, rooms, inbox, joinPc, ops>>
    /\ UNCHANGED timing
    /\ UNCHANGED elsewhere

\* io.to(room).emit("chat:message:new", ...)
MessageSendEmit(s) ==
    /\ snapshot = "chatEvents"
    /\ h[s].op = "send" /\ h[s].pc = "emit"
    /\ inbox' = broadcast(inbox, s, h[s].conv, NewMessageEvent(h[s].msg))
    /\ h' = done(s)
    /\ UNCHANGED <<snapshot, storeUp, conversations, messages, rooms, joinPc, ops>>
    /\ UNCHANGED timing
    /\ UNCHANGED elsewhere

\* ---------------------------------------- chatEvents: mark messages read

\* handleMessagesRead up to its await; a malformed id returns without a word
MessagesReadStart(s, c) ==
    /\ snapshot = "chatEvents"
    /\ Invoke(s)
    /\ IF ~isValidId(c)
       THEN h' = h
       ELSE h' = [h EXCEPT ![s] = [Idle EXCEPT !.op = "read", !.pc = "update",
                                      !.conv = c]]
    /\ UNCHANGED <<snapshot, storeUp, conversations, messages, rooms, inbox, joinPc>>
    /\ UNCHANGED timing
    /\ UNCHANGED elsewhere

\* an updateMany whose filter leaves out the conversation
MessagesReadUpdateEverywhere(s) ==
    /\ snapshot = "chatEvents"
    /\ h[s].op = "read" /\ h[s].pc = "update"
    /\ h' = done(s)
    /\ messages' =
         [i \in 1..Len(messages) |->
            IF messages[i].sender # UserOf(s) /\ UserOf(s) \notin messages[i].readBy
            THEN [messages[i] EXCEPT !.readBy = @ \cup {UserOf(s)}]
            ELSE messages[i]]
    /\ UNCHANGED <<snapshot, storeUp, conversations, rooms, inbox, joinPc, ops>>
    /\ UNCHANGED timing
    /\ UNCHANGED elsewhere

\* updateMany({ conversationId, senderId: { $ne }, readBy: { $nin } },
\*            { $addToSet: { readBy: userId } }) resolves
MessagesReadUpdate(s) ==
    /\ snapshot = "chatEvents"
    /\ h[s].op = "read" /\ h[s].pc = "update"
    /\ h' = done(s)
    /\ IF ~storeUp
       THEN messages' = messages
       ELSE messages' =
              [i \in 1..Len(messages) |->
                 IF /\ messages[i].conv = h[s].conv
                    /\ messages[i].sender # UserOf(s)
                    /\ UserOf(s) \notin messages[i].readBy
                 THEN [messages[i] EXCEPT !.readBy = @ \cup {UserOf(s)}]
                 ELSE messages[i]]
    /\ UNCHANGED <<snapshot, storeUp, conversations, rooms, inbox, joinPc, ops>>
    /\ UNCHANGED timing
    /\ UNCHANGED elsewhere

\* --------------------------------------- chatEvents: connect-time room join

\* joinUserRooms step 1: $addToSet into All Staff, then socket.join
\* a variant of $addToSet that appends without looking ($push)
push(arr, u) == Append(arr, u)

\* MongoDB's $addToSet: append the value unless the array holds it
addToSet(arr, u) ==
    IF \E i \in 1..Len(arr) : arr[i] = u THEN arr ELSE Append(arr, u)

JoinAllStaff(s) ==
    /\ snapshot = "chatEvents"
    /\ joinPc[s] = "allStaff"
    /\ IF ~storeUp
       THEN /\ joinPc' = [joinPc EXCEPT ![s] = "done"]
            /\ UNCHANGED <<conversations, rooms, allStaff>>
       ELSE LET found == {c \in ConvIds : conversations[c].slug = ALL_STAFF_SLUG} IN
            /\ joinPc' = [joinPc EXCEPT ![s] = "dms"]
            /\ allStaff' = IF found = {} THEN allStaff
                           ELSE addToSet(allStaff, UserOf(s))
            /\ conversations' =
                 [c \in ConvIds |->
                    IF c \in found
                    THEN [conversations[c] EXCEPT
                            !.participants = @ \cup {UserOf(s)},
                            !.updatedAt = @ + 1]
                    ELSE conversations[c]]
            /\ rooms' = [rooms EXCEPT ![s] = @ \cup found]
    /\ UNCHANGED <<snapshot, storeUp, messages, inbox, h, ops>>
    /\ UNCHANGED timing
    /\ UNCHANGED <<isOnline, orders, tables, tableSessions>>

\* joinUserRooms step 2: re-join every direct conversation of the user
JoinDirectRooms(s) ==
    /\ snapshot = "chatEvents"
    /\ joinPc[s] = "dms"
    /\ joinPc' = [joinPc EXCEPT ![s] = "done"]
    /\ IF ~storeUp
       THEN rooms' = rooms
       ELSE rooms' =
              [rooms EXCEPT ![s] = @ \cup
                 {c \in ConvIds : /\ conversations[c].type = "direct"
                                  /\ UserOf(s) \in conversations[c].participants}]
    /\ UNCHANGED <<snapshot, storeUp, conversations, messages, inbox, h, ops>>
    /\ UNCHANGED timing
    /\ UNCHANGED elsewhere

\* the user's connection drops and the same user connects again: the new
\* socket is in no room and handleChatEvents runs joinUserRooms for it
Reconnect(s) ==
    /\ snapshot = "chatEvents"
    /\ joinPc[s] = "done"
    /\ Invoke(s)
    /\ rooms' = [rooms EXCEPT ![s] = {}]
    /\ joinPc' = [joinPc EXCEPT ![s] = "allStaff"]
    /\ UNCHANGED <<snapshot, storeUp, conversations, messages, inbox, h>>
    /\ UNCHANGED timing
    /\ UNCHANGED elsewhere

\* ---------------------------------------------- socketEvents: send message

\* a write of the counters the handler read with the conversation
unreadFromSnapshot(unread, doc, u) ==
    [p \in Users |->
        IF p \in doc.participants \ {u} THEN doc.unread[p] + 1 ELSE unread[p]]

\* $inc: { "unreadCounts.<p>": 1 } for every participant p of the fetched
\* conversation other than the sender
incUnread(unread, doc, u) ==
    [p \in Users |->
        IF p \in doc.participants \ {u} THEN unread[p] + 1 ELSE unread[p]]

\* lastMessage.content: content?.trim() || (attachments ? "📎 Attachment" : "")
preview(content, atts) ==
    IF content.core > 0 THEN content
    ELSE IF atts > 0 THEN AttachmentPreview ELSE NoContent

\* handleChatMessageSend up to its first await; new ObjectId throws on a
\* malformed id, inside the try
ChatMessageSendStart(s, c, content, atts) ==
    /\ snapshot = "socketEvents"
    /\ Invoke(s)
    /\ IF ~isValidId(c)
       THEN /\ inbox' = emit(inbox, s, ErrorEvent("failed"))
            /\ h' = h
       ELSE /\ inbox' = inbox
            /\ h' = [h EXCEPT ![s] = [Idle EXCEPT !.op = "send", !.pc = "find",
                                         !.conv = c, !.content = trim(content),
                                         !.atts = atts]]
    /\ UNCHANGED <<snapshot, storeUp, conversations, messages, rooms, joinPc>>
    /\ UNCHANGED timing
    /\ UNCHANGED elsewhere

\* findOne({ _id, "participants.userId": userId }) resolves
ChatMessageSendFind(s) ==
    /\ snapshot = "socketEvents"
    /\ h[s].op = "send" /\ h[s].pc = "find"
    /\ LET conv == findConversation(h[s].conv, UserOf(s)) IN
       IF ~storeUp
       THEN h' = done(s) /\ inbox' = emit(inbox, s, ErrorEvent("failed"))
       ELSE IF conv = NoDoc
       THEN h' = done(s) /\ inbox' = emit(inbox, s, ErrorEvent("denied"))
       ELSE /\ h' = [h EXCEPT ![s].pc = "create", ![s].doc = conv]
            /\ inbox' = inbox
    /\ UNCHANGED <<snapshot, storeUp, conversations, messages, rooms, joinPc, ops>>
    /\ UNCHANGED timing
    /\ UNCHANGED elsewhere

\* insertOne(message) resolves; the row has no readBy field
ChatMessageSendCreate(s) ==
    /\ snapshot = "socketEvents"
    /\ h[s].op = "send" /\ h[s].pc = "create"
    /\ IF ~storeUp
       THEN /\ h' = done(s)
            /\ inbox' = emit(inbox, s, ErrorEvent("failed"))
            /\ messages' = messages
       ELSE LET m == NewMessage(h[s].conv, UserOf(s), h[s].content, h[s].atts, {})
            IN /\ messages' = Append(messages, m)
               /\ h' = [h EXCEPT ![s].pc = "update", ![s].msg = m]
               /\ inbox' = inbox
    /\ UNCHANGED <<snapshot, storeUp, conversations, rooms, joinPc, ops>>
    /\ UNCHANGED timing
    /\ UNCHANGED elsewhere

\* updateOne({ _id }, { $set: { lastMessage, updatedAt }, $inc }) resolves
ChatMessageSendUpdate(s) ==
    /\ snapshot = "socketEvents"
    /\ h[s].op = "send" /\ h[s].pc = "update"
    /\ IF ~storeUp
       THEN /\ h' = done(s)
            /\ inbox' = emit(inbox, s, ErrorEvent("failed"))
            /\ conversations' = conversations
       ELSE /\ conversations' =
                 [conversations EXCEPT
                    ![h[s].conv].last =
                        [content |-> preview(h[s].content, h[s].atts),
                         sender |-> UserOf(s), at |-> h[s].msg.id],
                    ![h[s].conv].updatedAt = h[s].msg.id,
                    ![h[s].conv].unread = incUnread(@, h[s].doc, UserOf(s))]
            /\ h' = [h EXCEPT ![s].pc = "emit"]
            /\ inbox' = inbox
    /\ UNCHANGED <<snapshot, storeUp, messages, rooms, joinPc, ops>>
    /\ UNCHANGED timing
    /\ UNCHANGED elsewhere

\* io.to(conversationId).emit("chat:message:received", ...)
ChatMessageSendEmit(s) ==
    /\ snapshot = "socketEvents"
    /\ h[s].op = "send" /\ h[s].pc = "emit"
    /\ inbox' = broadcast(inbox, s, h[s].conv, NewMessageEvent(h[s].msg))
    /\ h' = done(s)
    /\ UNCHANGED <<snapshot, storeUp, conversations, messages, rooms, joinPc, ops>>
    /\ UNCHANGED timing
    /\ UNCHANGED elsewhere

\* ------------------------------------- socketEvents: load conversation list

ChatConversationsLoadStart(s) ==
    /\ snapshot = "socketEvents"
    /\ Invoke(s)
    /\ h' = [h EXCEPT ![s] = [Idle EXCEPT !.op = "convLoad", !.pc = "find"]]
    /\ UNCHANGED <<snapshot, storeUp, conversations, messages, rooms, inbox, joinPc>>
    /\ UNCHANGED timing
    /\ UNCHANGED elsewhere

\* find({ "participants.userId": userId }) resolves; socket.join(roomIds)
ChatConversationsLoadFind(s) ==
    /\ snapshot = "socketEvents"
    /\ h[s].op = "convLoad" /\ h[s].pc = "find"
    /\ h' = done(s)
    /\ IF ~storeUp
       THEN /\ inbox' = emit(inbox, s, ErrorEvent("failed"))
            /\ rooms' = rooms
       ELSE /\ rooms' =
                 [rooms EXCEPT ![s] = @ \cup
                    {c \in ConvIds : UserOf(s) \in conversations[c].participants}]
            /\ inbox' = emit(inbox, s, Event("conversations", "loaded", 0, 0, 0,
                                               NoContent, {}, {}))
    /\ UNCHANGED <<snapshot, storeUp, conversations, messages, joinPc, ops>>
    /\ UNCHANGED timing
    /\ UNCHANGED elsewhere

\* ------------------------------------------------------ messaging: dm:send

\* insertMessage of messaging.db: the row as the data model describes it
insertMessage(c, u, content) == NewMessage(c, u, content, 0, {u})

\* markMessagesAsRead of messaging.db: the ids of the messages of the
\* conversation that others wrote and the user has not read
unreadMessageIds(c, u) ==
    {i \in 1..Len(messages) :
        /\ messages[i].conv = c
        /\ messages[i].sender # u
        /\ u \notin messages[i].readBy}

\* dm:send up to its first await; an empty body returns without a word
DmSendStart(s, c, content) ==
    /\ snapshot = "messaging"
    /\ Invoke(s)
    /\ IF trim(content).core = 0
       THEN inbox' = inbox /\ h' = h
       ELSE IF ~isValidId(c)
       THEN inbox' = emit(inbox, s, ErrorEvent("failed")) /\ h' = h
       ELSE /\ inbox' = inbox
            /\ h' = [h EXCEPT ![s] = [Idle EXCEPT !.op = "send", !.pc = "find",
                                         !.conv = c, !.content = trim(content)]]
    /\ UNCHANGED <<snapshot, storeUp, conversations, messages, rooms, joinPc>>
    /\ UNCHANGED timing
    /\ UNCHANGED elsewhere

\* conversations.findOne({ _id, participants: userId }) resolves
DmSendFind(s) ==
    /\ snapshot = "messaging"
    /\ h[s].op = "send" /\ h[s].pc = "find"
    /\ LET conv == findConversation(h[s].conv, UserOf(s)) IN
       IF ~storeUp
       THEN h' = done(s) /\ inbox' = emit(inbox, s, ErrorEvent("failed"))
       ELSE IF conv = NoDoc
       THEN h' = done(s) /\ inbox' = emit(inbox, s, ErrorEvent("denied"))
       ELSE /\ h' = [h EXCEPT ![s].pc = "create", ![s].doc = conv]
            /\ inbox' = inbox
    /\ UNCHANGED <<snapshot, storeUp, conversations, messages, rooms, joinPc, ops>>
    /\ UNCHANGED timing
    /\ UNCHANGED elsewhere

\* insertMessage resolves
DmSendInsert(s) ==
    /\ snapshot = "messaging"
    /\ h[s].op = "send" /\ h[s].pc = "create"
    /\ IF ~storeUp
       THEN /\ h' = done(s)
            /\ inbox' = emit(inbox, s, ErrorEvent("failed"))
            /\ messages' = messages
       ELSE LET m == insertMessage(h[s].conv, UserOf(s), h[s].content)
            IN /\ messages' = Append(messages, m)
               /\ h' = [h EXCEPT ![s].pc = "emit", ![s].msg = m]
               /\ inbox' = inbox
    /\ UNCHANGED <<snapshot, storeUp, conversations, rooms, joinPc, ops>>
    /\ UNCHANGED timing
    /\ UNCHANGED elsewhere

\* dm:notification to the user:<id> rooms of the other participants, which
\* every socket of an authenticated user joins on connection
notifyOthers(box, s, doc, e) ==
    [t \in Sessions |->
        IF UserOf(t) \in doc.participants \ {UserOf(s)}
        THEN Append(box[t], e) ELSE box[t]]

\* io.to(room).emit("dm:receive"), socket.emit("dm:sent"), dm:notification
DmSendEmit(s) ==
    /\ snapshot = "messaging"
    /\ h[s].op = "send" /\ h[s].pc = "emit"
    /\ LET m == h[s].msg
           received == broadcast(inbox, s, h[s].conv, NewMessageEvent(m))
           sent == emit(received, s,
                        Event("sent", "", m.conv, m.id, 0, NoContent, {}, {}))
       IN inbox' = notifyOthers(sent, s, h[s].doc,
                       Event("notification", "", m.conv, 0, m.sender,
                             m.content, {}, {}))
    /\ h' = done(s)
    /\ UNCHANGED <<snapshot, storeUp, conversations, messages, rooms, joinPc, ops>>
    /\ UNCHANGED timing
    /\ UNCHANGED elsewhere

\* ------------------------------------------ messaging: dm:conversation:join

DmConversationJoinStart(s, c) ==
    /\ snapshot = "messaging"
    /\ Invoke(s)
    /\ IF ~isValidId(c)
       THEN inbox' = emit(inbox, s, ErrorEvent("failed")) /\ h' = h
       ELSE /\ inbox' = inbox
            /\ h' = [h EXCEPT ![s] = [Idle EXCEPT !.op = "join", !.pc = "find",
                                         !.conv = c]]
    /\ UNCHANGED <<snapshot, storeUp, conversations, messages, rooms, joinPc>>
    /\ UNCHANGED timing
    /\ UNCHANGED elsewhere

\* the participant check resolves; socket.join(room)
DmConversationJoinFind(s) ==
    /\ snapshot = "messaging"
    /\ h[s].op = "join" /\ h[s].pc = "find"
    /\ LET conv == findConversation(h[s].conv, UserOf(s)) IN
       IF ~storeUp
       THEN /\ h' = done(s)
            /\ inbox' = emit(inbox, s, ErrorEvent("failed"))
            /\ rooms' = rooms
       ELSE IF conv = NoDoc
       THEN /\ h' = done(s)
            /\ inbox' = emit(inbox, s, ErrorEvent("denied"))
            /\ rooms' = rooms
       ELSE /\ h' = [h EXCEPT ![s].pc = "markRead", ![s].doc = conv]
            /\ inbox' = inbox
            /\ rooms' = [rooms EXCEPT ![s] = @ \cup {h[s].conv}]
    /\ UNCHANGED <<snapshot, storeUp, conversations, messages, joinPc, ops>>
    /\ UNCHANGED timing
    /\ UNCHANGED elsewhere

\* markMessagesAsRead resolves; the ids that changed go to the room as dm:read
DmConversationJoinMarkRead(s) ==
    /\ snapshot = "messaging"
    /\ h[s].op = "join" /\ h[s].pc = "markRead"
    /\ h' = done(s)
    /\ IF ~storeUp
       THEN /\ inbox' = emit(inbox, s, ErrorEvent("failed"))
            /\ UNCHANGED <<messages, conversations>>
       ELSE LET ids == unreadMessageIds(h[s].conv, UserOf(s)) IN
            /\ messages' =
                 [i \in 1..Len(messages) |->
                    IF i \in ids
                    THEN [messages[i] EXCEPT !.readBy = @ \cup {UserOf(s)}]
                    ELSE messages[i]]
            /\ conversations' =
                 [conversations EXCEPT ![h[s].conv].unread[UserOf(s)] = 0]
            /\ inbox' =
                 IF ids = {} THEN inbox
                 ELSE broadcast(inbox, s, h[s].conv,
                        Event("read", "", h[s].conv, 0, UserOf(s), NoContent, {}, ids))
    /\ UNCHANGED <<snapshot, storeUp, rooms, joinPc, ops>>
    /\ UNCHANGED timing
    /\ UNCHANGED elsewhere

\* -------------------------------------------------- sessionChat: chat:send

\* chat:join: socket.join(room), no check
ChatJoin(s, c) ==
    /\ snapshot = "sessionChat"
    /\ Invoke(s)
    /\ rooms' = [rooms EXCEPT ![s] = @ \cup {c}]
    /\ UNCHANGED <<snapshot, storeUp, conversations, messages, inbox, h, joinPc>>
    /\ UNCHANGED timing
    /\ UNCHANGED elsewhere

\* chat:send up to its first await; an empty body returns without a word
ChatSendStart(s, c, content, role) ==
    /\ snapshot = "sessionChat"
    /\ Invoke(s)
    /\ IF trim(content).core = 0
       THEN h' = h
       ELSE h' = [h EXCEPT ![s] = [Idle EXCEPT !.op = "send", !.pc = "create",
                                      !.conv = c, !.content = trim(content),
                                      !.role = role]]
    /\ UNCHANGED <<snapshot, storeUp, conversations, messages, rooms, inbox, joinPc>>
    /\ UNCHANGED timing
    /\ UNCHANGED elsewhere

\* ChatMessage.create resolves
ChatSendCreate(s) ==
    /\ snapshot = "sessionChat"
    /\ h[s].op = "send" /\ h[s].pc = "create"
    /\ IF ~storeUp
       THEN /\ h' = done(s)
            /\ inbox' = emit(inbox, s, ErrorEvent("failed"))
            /\ messages' = messages
       ELSE LET m == NewMessage(h[s].conv, UserOf(s), h[s].content, 0, {})
            IN /\ messages' = Append(messages, m)
               /\ h' = [h EXCEPT ![s].pc = "emit", ![s].msg = m]
               /\ inbox' = inbox
    /\ UNCHANGED <<snapshot, storeUp, conversations, rooms, joinPc, ops>>
    /\ UNCHANGED timing
    /\ UNCHANGED elsewhere

\* io.to(room).emit("chat:receive"); a customer's message is also announced
\* to pos:cashiers
ChatSendEmit(s) ==
    /\ snapshot = "sessionChat"
    /\ h[s].op = "send" /\ h[s].pc = "emit"
    /\ LET m == h[s].msg
           received == broadcast(inbox, s, h[s].conv, NewMessageEvent(m))
       IN inbox' =
            IF h[s].role = "customer"
            THEN broadcast(received, s, PosRoom,
                   Event("customerMessage", "", m.conv, 0, m.sender,
                         m.content, {}, {}))
            ELSE received
    /\ h' = done(s)
    /\ UNCHANGED <<snapshot, storeUp, conversations, messages, rooms, joinPc, ops>>
    /\ UNCHANGED timing
    /\ UNCHANGED elsewhere

\* io.to("pos:cashiers").emit("chat:customer:message") throws after the room
\* got chat:receive: the catch block tells the sender that the send failed
ChatSendNotifyThrows(s) ==
    /\ snapshot = "sessionChat"
    /\ h[s].op = "send" /\ h[s].pc = "emit"
    /\ h[s].role = "customer"
    /\ inbox' = emit(broadcast(inbox, s, h[s].conv, NewMessageEvent(h[s].msg)),
                     s, ErrorEvent("failed"))
    /\ h' = done(s)
    /\ UNCHANGED <<snapshot, storeUp, conversations, messages, rooms, joinPc, ops>>
    /\ UNCHANGED timing
    /\ UNCHANGED elsewhere

\* ------------------------------------------- sessionChat: chat:table:send

\* getTableChatRoom(tableId), told apart from the rooms of chat sessions
TableRoom(t) == 100 + t

Tables == {1}

\* chat:table:join: socket.join(room), no check
ChatTableJoin(s, t) ==
    /\ snapshot = "sessionChat"
    /\ Invoke(s)
    /\ rooms' = [rooms EXCEPT ![s] = @ \cup {TableRoom(t)}]
    /\ UNCHANGED <<snapshot, storeUp, conversations, messages, inbox, h, joinPc>>
    /\ UNCHANGED timing
    /\ UNCHANGED elsewhere

\* chat:table:send up to its first await; an empty body returns without a word
ChatTableSendStart(s, t, content, role) ==
    /\ snapshot = "sessionChat"
    /\ Invoke(s)
    /\ IF trim(content).core = 0
       THEN h' = h
       ELSE h' = [h EXCEPT ![s] = [Idle EXCEPT !.op = "tableSend", !.pc = "create",
                                      !.conv = TableRoom(t),
                                      !.content = trim(content), !.role = role]]
    /\ UNCHANGED <<snapshot, storeUp, conversations, messages, rooms, inbox, joinPc>>
    /\ UNCHANGED timing
    /\ UNCHANGED elsewhere

\* ChatMessage.create resolves
ChatTableSendCreate(s) ==
    /\ snapshot = "sessionChat"
    /\ h[s].op = "tableSend" /\ h[s].pc = "create"
    /\ IF ~storeUp
       THEN /\ h' = done(s)
            /\ inbox' = emit(inbox, s, ErrorEvent("failed"))
            /\ messages' = messages
       ELSE LET m == NewMessage(h[s].conv, UserOf(s), h[s].content, 0, {})
            IN /\ messages' = Append(messages, m)
               /\ h' = [h EXCEPT ![s].pc = "emit", ![s].msg = m]
               /\ inbox' = inbox
    /\ UNCHANGED <<snapshot, storeUp, conversations, rooms, joinPc, ops>>
    /\ UNCHANGED timing
    /\ UNCHANGED elsewhere

\* chat:customer:message { tableId | sessionId, senderName, preview }
CustomerMessageEvent(m) ==
    Event("customerMessage", "", m.conv, 0, m.sender, m.content, {}, {})

\* io.to(room).emit("chat:table:receive"); a customer's message is also
\* announced to pos:cashiers
ChatTableSendEmit(s) ==
    /\ snapshot = "sessionChat"
    /\ h[s].op = "tableSend" /\ h[s].pc = "emit"
    /\ LET received == broadcast(inbox, s, h[s].conv, NewMessageEvent(h[s].msg))
       IN inbox' =
            IF h[s].role = "customer"
            THEN broadcast(received, s, PosRoom, CustomerMessageEvent(h[s].msg))
            ELSE received
    /\ h' = done(s)
    /\ UNCHANGED <<snapshot, storeUp, conversations, messages, rooms, joinPc, ops>>
    /\ UNCHANGED timing
    /\ UNCHANGED elsewhere

\* the same throw in chat:table:send
ChatTableSendNotifyThrows(s) ==
    /\ snapshot = "sessionChat"
    /\ h[s].op = "tableSend" /\ h[s].pc = "emit"
    /\ h[s].role = "customer"
    /\ inbox' = emit(broadcast(inbox, s, h[s].conv, NewMessageEvent(h[s].msg)),
                     s, ErrorEvent("failed"))
    /\ h' = done(s)
    /\ UNCHANGED <<snapshot, storeUp, conversations, messages, rooms, joinPc, ops>>
    /\ UNCHANGED timing
    /\ UNCHANGED elsewhere

\* ------------------------------- chatEvents: get or create a direct conversation

\* const [idA, idB] = [userId, targetUserId].sort(); slug = `direct:${idA}:${idB}`
DirectSlug(a, b) == IF a <= b THEN <<"direct", a, b>> ELSE <<"direct", b, a>>

\* ConversationModel.findOne({ slug })
findBySlug(slug) ==
    IF \E c \in ConvIds : conversations[c].slug = slug
    THEN conversations[CHOOSE c \in ConvIds : conversations[c].slug = slug]
    ELSE NoDoc

\* a Conversation row as the store creates it
Conversation(id, type, slug, participants) ==
    [id |-> id, type |-> type, slug |-> slug, participants |-> participants,
     unread |-> [u \in Users |-> 0], last |-> NoLast, updatedAt |-> 0]

\* the sockets in the room user:<u>
UserRoom(u) == {t \in Sessions : UserOf(t) = u}

\* handleDirectGetOrCreate up to its first await
DirectGetOrCreateStart(s, target) ==
    /\ snapshot = "chatEvents"
    /\ Invoke(s)
    /\ IF UserOf(s) = target
       THEN /\ inbox' = emit(inbox, s, ErrorEvent("self_dm"))
            /\ h' = h
       ELSE /\ inbox' = inbox
            /\ h' = [h EXCEPT ![s] = [Idle EXCEPT !.op = "direct", !.pc = "find",
                                         !.target = target]]
    /\ UNCHANGED <<snapshot, storeUp, conversations, messages, rooms, joinPc>>
    /\ UNCHANGED timing
    /\ UNCHANGED elsewhere

\* findOne({ slug }) resolves; a rejection is only logged
DirectGetOrCreateFind(s) ==
    /\ snapshot = "chatEvents"
    /\ h[s].op = "direct" /\ h[s].pc = "find"
    /\ LET conv == findBySlug(DirectSlug(UserOf(s), h[s].target)) IN
         IF ~storeUp THEN h' = done(s)
         ELSE IF conv = NoDoc THEN h' = [h EXCEPT ![s].pc = "create"]
         ELSE h' = [h EXCEPT ![s].pc = "ready", ![s].doc = conv]
    /\ UNCHANGED <<snapshot, storeUp, conversations, messages, rooms, inbox, joinPc, ops>>
    /\ UNCHANGED timing
    /\ UNCHANGED elsewhere

\* ConversationModel.create resolves; the unique index on slug rejects a
\* second row with the same slug, and the rejection is only logged.  The
\* handler that took the `if (!conv)` branch keeps the id of its new row.
DirectGetOrCreateCreate(s) ==
    /\ snapshot = "chatEvents"
    /\ h[s].op = "direct" /\ h[s].pc = "create"
    /\ LET slug == DirectSlug(UserOf(s), h[s].target)
           conv == Conversation(Len(conversations) + 1, "direct", slug,
                                {UserOf(s), h[s].target})
       IN IF ~storeUp \/ findBySlug(slug) # NoDoc
          THEN /\ conversations' = conversations
               /\ h' = done(s)
          ELSE /\ conversations' = Append(conversations, conv)
               /\ h' = [h EXCEPT ![s].pc = "ready", ![s].doc = conv,
                                 ![s].conv = conv.id]
    /\ UNCHANGED <<snapshot, storeUp, messages, rooms, inbox, joinPc, ops>>
    /\ UNCHANGED timing
    /\ UNCHANGED elsewhere

\* socket.join(room), socketsJoin(room) on the target's user room, then
\* chat:direct:ready to the requester and chat:conversation:new to the target
DirectGetOrCreateReady(s) ==
    /\ snapshot = "chatEvents"
    /\ h[s].op = "direct" /\ h[s].pc = "ready"
    /\ LET c == h[s].doc.id
           ready == Event("direct", "ready", c, 0, 0, NoContent, {}, {})
           new == Event("conversation", "new", c, 0, 0, NoContent, {}, {})
       IN /\ rooms' = [t \in Sessions |->
                          IF t = s \/ t \in UserRoom(h[s].target)
                          THEN rooms[t] \cup {c} ELSE rooms[t]]
          /\ inbox' = [t \in Sessions |->
                          IF t \in UserRoom(h[s].target)
                          THEN Append(emit(inbox, s, ready)[t], new)
                          ELSE emit(inbox, s, ready)[t]]
    /\ h' = done(s)
    /\ UNCHANGED <<snapshot, storeUp, conversations, messages, joinPc, ops>>
    /\ UNCHANGED timing
    /\ UNCHANGED elsewhere

\* ----------------------------- socketEvents: get or create a direct conversation

NoSlug == <<>>

\* findOne({ type: "direct", participants: { $all: [{ $elemMatch: { userId } },
\*           { $elemMatch: { userId: targetUserId } }] } })
findDirect(u, target) ==
    LET found == {c \in ConvIds : /\ conversations[c].type = "direct"
                                  /\ {u, target} \subseteq conversations[c].participants}
    IN IF found = {} THEN NoDoc
       ELSE conversations[CHOOSE c \in found : \A d \in found : c <= d]

\* socket.join(conversation._id) and chat:direct:created to the requester
directCreated(s, conv) ==
    /\ rooms' = [rooms EXCEPT ![s] = @ \cup {conv.id}]
    /\ inbox' = emit(inbox, s, Event("direct", "created", conv.id, 0, 0,
                                     NoContent, {}, {}))

\* the catch block of handleChatDirectGetOrCreate
directFailed(s) ==
    /\ rooms' = rooms
    /\ inbox' = emit(inbox, s, ErrorEvent("failed"))
    /\ h' = done(s)

\* handleChatDirectGetOrCreate up to its first await
ChatDirectGetOrCreateStart(s, target) ==
    /\ snapshot = "socketEvents"
    /\ Invoke(s)
    /\ h' = [h EXCEPT ![s] = [Idle EXCEPT !.op = "direct", !.pc = "find",
                                 !.target = target]]
    /\ UNCHANGED <<snapshot, storeUp, conversations, messages, rooms, inbox, joinPc>>
    /\ UNCHANGED timing
    /\ UNCHANGED elsewhere

\* the lookup resolves: an existing conversation is joined and returned
ChatDirectGetOrCreateFind(s) ==
    /\ snapshot = "socketEvents"
    /\ h[s].op = "direct" /\ h[s].pc = "find"
    /\ LET conv == findDirect(UserOf(s), h[s].target) IN
         IF ~storeUp THEN directFailed(s)
         ELSE IF conv = NoDoc
         THEN /\ h' = [h EXCEPT ![s].pc = "users"]
              /\ UNCHANGED <<rooms, inbox>>
         ELSE /\ directCreated(s, conv)
              /\ h' = done(s)
    /\ UNCHANGED <<snapshot, storeUp, conversations, messages, joinPc, ops>>
    /\ UNCHANGED timing
    /\ UNCHANGED elsewhere

\* getUserCollection().find({ id: { $in: [userId, targetUserId] } }) resolves
ChatDirectGetOrCreateUsers(s) ==
    /\ snapshot = "socketEvents"
    /\ h[s].op = "direct" /\ h[s].pc = "users"
    /\ IF ~storeUp THEN directFailed(s)
       ELSE /\ h' = [h EXCEPT ![s].pc = "insert"]
            /\ UNCHANGED <<rooms, inbox>>
    /\ UNCHANGED <<snapshot, storeUp, conversations, messages, joinPc, ops>>
    /\ UNCHANGED timing
    /\ UNCHANGED elsewhere

\* insertOne(newConversation) resolves: nothing constrains the pair
ChatDirectGetOrCreateInsert(s) ==
    /\ snapshot = "socketEvents"
    /\ h[s].op = "direct" /\ h[s].pc = "insert"
    /\ IF ~storeUp
       THEN /\ directFailed(s)
            /\ conversations' = conversations
       ELSE /\ conversations' =
                 Append(conversations,
                        Conversation(Len(conversations) + 1, "direct", NoSlug,
                                     {UserOf(s), h[s].target}))
            /\ h' = [h EXCEPT ![s].pc = "refetch",
                              ![s].conv = Len(conversations) + 1]
            /\ UNCHANGED <<rooms, inbox>>
    /\ UNCHANGED <<snapshot, storeUp, messages, joinPc, ops>>
    /\ UNCHANGED timing
    /\ UNCHANGED elsewhere

\* findOne({ _id: result.insertedId }) resolves
ChatDirectGetOrCreateRefetch(s) ==
    /\ snapshot = "socketEvents"
    /\ h[s].op = "direct" /\ h[s].pc = "refetch"
    /\ IF ~storeUp THEN directFailed(s)
       ELSE /\ directCreated(s, conversations[h[s].conv])
            /\ h' = done(s)
    /\ UNCHANGED <<snapshot, storeUp, conversations, messages, joinPc, ops>>
    /\ UNCHANGED timing
    /\ UNCHANGED elsewhere

\* ------------------------------------------------- history pages (both loads)

MESSAGES_LIMIT == 50

\* a well-formed conversation id that names no conversation
UnknownId == 9
LoadConvInputs == {BadId, 1, 2, UnknownId}

\* no cursor, or the id of a message
NoCursor == 0
CursorInputs == {NoCursor, 2, MESSAGES_LIMIT + 1}

\* the `limit` a chat:messages:load may carry (50 when absent)
LimitInputs == {1, MESSAGES_LIMIT}

\* { conversationId, _id: { $lt: cursor } }: the ids the query matches
matching(c, cursor) ==
    {i \in 1..Len(messages) :
        messages[i].conv = c /\ (cursor = NoCursor \/ i < cursor)}

\* .sort({ _id: -1 }).limit(k): the k newest ids of S at or below i, newest first
RECURSIVE newestFrom(_, _, _)
newestFrom(S, i, k) ==
    IF i = 0 \/ k = 0 THEN <<>>
    ELSE IF i \in S THEN <<i>> \o newestFrom(S, i - 1, k - 1)
    ELSE newestFrom(S, i - 1, k)

newestFirst(S, k) == newestFrom(S, Len(messages), k)

reverse(q) == [i \in 1..Len(q) |-> q[Len(q) + 1 - i]]

slice(q, k) == SubSeq(q, 1, IF Len(q) < k THEN Len(q) ELSE k)

\* handleMessagesLoad: raw = find(query).sort({ _id: -1 }).limit(LIMIT + 1)
raw(c, cursor) == newestFirst(matching(c, cursor), MESSAGES_LIMIT + 1)

\* chat:messages:loaded { conversationId, messages, hasMore }
LoadedEvent(c, page, hasMore) ==
    [Event("loaded", "", c, 0, 0, NoContent, {}, {}) EXCEPT
        !.page = page, !.hasMore = hasMore]

\* chatEvents: raw.slice(0, LIMIT).reverse() and raw.length > LIMIT
messagesLoaded(c, cursor) ==
    LoadedEvent(c, reverse(slice(raw(c, cursor), MESSAGES_LIMIT)),
                Len(raw(c, cursor)) > MESSAGES_LIMIT)

\* socketEvents: find(query).sort({ createdAt: -1 }).limit(limit).toArray()
chatMessages(c, before, limit) == newestFirst(matching(c, before), limit)

\* socketEvents: the page as the query returned it, hasMore: length === limit
chatMessagesLoaded(c, page, limit) == LoadedEvent(c, page, Len(page) = limit)

\* --------------------------------------------- chatEvents: load a history page

\* handleMessagesLoad up to its first await; an invalid cursor is ignored
MessagesLoadStart(s, c, cursor) ==
    /\ snapshot = "chatEvents"
    /\ Invoke(s)
    /\ IF ~isValidId(c)
       THEN /\ inbox' = emit(inbox, s, ErrorEvent("invalid_id"))
            /\ h' = h
       ELSE /\ inbox' = inbox
            /\ h' = [h EXCEPT ![s] = [Idle EXCEPT !.op = "load", !.pc = "find",
                                         !.conv = c, !.cursor = cursor]]
    /\ UNCHANGED <<snapshot, storeUp, conversations, messages, rooms, joinPc>>
    /\ UNCHANGED timing
    /\ UNCHANGED elsewhere

\* findOne({ _id, participants: userId }) resolves; a rejection is only logged
MessagesLoadFind(s) ==
    /\ snapshot = "chatEvents"
    /\ h[s].op = "load" /\ h[s].pc = "find"
    /\ LET conv == findConversation(h[s].conv, UserOf(s)) IN
       IF ~storeUp
       THEN h' = done(s) /\ inbox' = inbox
       ELSE IF conv = NoDoc
       THEN h' = done(s) /\ inbox' = emit(inbox, s, ErrorEvent("not_found"))
       ELSE /\ h' = [h EXCEPT ![s].pc = "query", ![s].doc = conv]
            /\ inbox' = inbox
    /\ UNCHANGED <<snapshot, storeUp, conversations, messages, rooms, joinPc, ops>>
    /\ UNCHANGED timing
    /\ UNCHANGED elsewhere

\* MessageModel.find resolves; chat:messages:loaded goes to the requester
MessagesLoadQuery(s) ==
    /\ snapshot = "chatEvents"
    /\ h[s].op = "load" /\ h[s].pc = "query"
    /\ h' = done(s)
    /\ IF ~storeUp
       THEN inbox' = inbox
       ELSE inbox' = emit(inbox, s, messagesLoaded(h[s].conv, h[s].cursor))
    /\ UNCHANGED <<snapshot, storeUp, conversations, messages, rooms, joinPc, ops>>
    /\ UNCHANGED timing
    /\ UNCHANGED elsewhere

\* ------------------------------------------- socketEvents: load a history page

\* the catch block of handleChatMessagesLoad
loadFailed(s) ==
    /\ inbox' = emit(inbox, s, ErrorEvent("failed"))
    /\ h' = done(s)

\* handleChatMessagesLoad up to its first await; new ObjectId throws on a
\* malformed id, inside the try
ChatMessagesLoadStart(s, c, before, limit) ==
    /\ snapshot = "socketEvents"
    /\ Invoke(s)
    /\ IF ~isValidId(c)
       THEN /\ inbox' = emit(inbox, s, ErrorEvent("failed"))
            /\ h' = h
       ELSE /\ inbox' = inbox
            /\ h' = [h EXCEPT ![s] = [Idle EXCEPT !.op = "load", !.pc = "find",
                                         !.conv = c, !.cursor = before,
                                         !.limit = limit]]
    /\ UNCHANGED <<snapshot, storeUp, conversations, messages, rooms, joinPc>>
    /\ UNCHANGED timing
    /\ UNCHANGED elsewhere

\* findOne({ _id, "participants.userId": userId }) resolves
ChatMessagesLoadFind(s) ==
    /\ snapshot = "socketEvents"
    /\ h[s].op = "load" /\ h[s].pc = "find"
    /\ LET conv == findConversation(h[s].conv, UserOf(s)) IN
       IF ~storeUp THEN loadFailed(s)
       ELSE IF conv = NoDoc
       THEN h' = done(s) /\ inbox' = emit(inbox, s, ErrorEvent("not_found"))
       ELSE /\ h' = [h EXCEPT ![s].pc = "query", ![s].doc = conv]
            /\ inbox' = inbox
    /\ UNCHANGED <<snapshot, storeUp, conversations, messages, rooms, joinPc, ops>>
    /\ UNCHANGED timing
    /\ UNCHANGED elsewhere

\* the page query resolves
ChatMessagesLoadQuery(s) ==
    /\ snapshot = "socketEvents"
    /\ h[s].op = "load" /\ h[s].pc = "query"
    /\ IF ~storeUp THEN loadFailed(s)
       ELSE /\ h' = [h EXCEPT ![s].pc = "reset",
                              ![s].page = chatMessages(h[s].conv, h[s].cursor,
                                                       h[s].limit)]
            /\ inbox' = inbox
    /\ UNCHANGED <<snapshot, storeUp, conversations, messages, rooms, joinPc, ops>>
    /\ UNCHANGED timing
    /\ UNCHANGED elsewhere

\* updateOne({ _id }, { $set: { "unreadCounts.<userId>": 0 } }) resolves, on
\* every page; chat:messages:loaded goes to the requester
ChatMessagesLoadReset(s) ==
    /\ snapshot = "socketEvents"
    /\ h[s].op = "load" /\ h[s].pc = "reset"
    /\ IF ~storeUp
       THEN loadFailed(s) /\ conversations' = conversations
       ELSE /\ conversations' =
                 [conversations EXCEPT ![h[s].conv].unread[UserOf(s)] = 0]
            /\ inbox' = emit(inbox, s,
                             chatMessagesLoaded(h[s].conv, h[s].page, h[s].limit))
            /\ h' = done(s)
    /\ UNCHANGED <<snapshot, storeUp, messages, rooms, joinPc, ops>>
    /\ UNCHANGED timing
    /\ UNCHANGED elsewhere

\* a dm:typing:start / dm:typing:stop event; `id` holds the second it was
\* emitted in
TypingEvent(kind, c, u) == Event("typing", kind, c, now, u, NoContent, {}, {})

\* socket.to(room).emit(event, payload): the room without the socket itself
toRoom(box, s, c, e) ==
    [t \in Sessions |->
        IF c \in rooms[t] /\ t # s THEN Append(box[t], e) ELSE box[t]]

\* a clearTimeout that leaves the timeout pending
keepTimeout(pending, handle) == pending

\* clearTimeout(handle)
clearTimeout(pending, handle) == {t \in pending : t.handle # handle}

\* setTimeout(() => { ... }, 3000) called by socket s for conversation c
Timeout(handle, s, c) ==
    [handle |-> handle, socket |-> s, conv |-> c, due |-> now + TypingTimeout]

\* dm:typing:start: broadcast, then clear the timer of the key and arm a new one
DmTypingStart(s, c) ==
    /\ snapshot = "messaging"
    /\ Invoke(s)
    /\ inbox' = toRoom(inbox, s, c, TypingEvent("start", c, UserOf(s)))
    /\ LET key == timerKey(c, UserOf(s)) IN
         /\ typingTimers' = [typingTimers EXCEPT ![key] = ops + 1]
         /\ timeouts' =
              (IF typingTimers[key] # NoHandle
               THEN clearTimeout(timeouts, typingTimers[key])
               ELSE timeouts) \cup {Timeout(ops + 1, s, c)}
    /\ UNCHANGED <<snapshot, storeUp, conversations, messages, rooms, h, joinPc, now>>
    /\ UNCHANGED elsewhere

\* a timeout callback that leaves its table entry in place
TypingTimerFiresKeepsEntry(t) ==
    /\ t \in timeouts
    /\ now >= t.due
    /\ timeouts' = timeouts \ {t}
    /\ inbox' = toRoom(inbox, t.socket, t.conv,
                       TypingEvent("stop", t.conv, UserOf(t.socket)))
    /\ UNCHANGED <<snapshot, storeUp, conversations, messages, rooms, h, joinPc,
                   ops, now, typingTimers>>
    /\ UNCHANGED elsewhere

\* the timeout callback runs: dm:typing:stop, typingTimers.delete(timerKey)
TypingTimerFires(t) ==
    /\ t \in timeouts
    /\ now >= t.due
    /\ timeouts' = timeouts \ {t}
    /\ inbox' = toRoom(inbox, t.socket, t.conv,
                       TypingEvent("stop", t.conv, UserOf(t.socket)))
    /\ typingTimers' =
         [typingTimers EXCEPT ![timerKey(t.conv, UserOf(t.socket))] = NoHandle]
    /\ UNCHANGED <<snapshot, storeUp, conversations, messages, rooms, h, joinPc,
                   ops, now>>
    /\ UNCHANGED elsewhere

\* a second passes; the runtime runs a due timeout before later events
Tick ==
    /\ now < MaxTime
    /\ \A t \in timeouts : now < t.due
    /\ now' = now + 1
    /\ UNCHANGED <<snapshot, storeUp, conversations, messages, rooms, inbox, h,
                   joinPc, ops, typingTimers, timeouts>>
    /\ UNCHANGED elsewhere

\* a dm:typing:stop that leaves the timer of the key armed
DmTypingStopKeepsTimer(s, c) ==
    /\ snapshot = "messaging"
    /\ Invoke(s)
    /\ inbox' = toRoom(inbox, s, c, TypingEvent("stop", c, UserOf(s)))
    /\ UNCHANGED <<snapshot, storeUp, conversations, messages, rooms, h, joinPc>>
    /\ UNCHANGED timing
    /\ UNCHANGED elsewhere

\* dm:typing:stop: clear and delete the timer of the key, then broadcast
DmTypingStop(s, c) ==
    /\ snapshot = "messaging"
    /\ Invoke(s)
    /\ LET key == timerKey(c, UserOf(s)) IN
         /\ typingTimers' = [typingTimers EXCEPT ![key] = NoHandle]
         /\ timeouts' =
              IF typingTimers[key] # NoHandle
              THEN clearTimeout(timeouts, typingTimers[key])
              ELSE timeouts
    /\ inbox' = toRoom(inbox, s, c, TypingEvent("stop", c, UserOf(s)))
    /\ UNCHANGED <<snapshot, storeUp, conversations, messages, rooms, h, joinPc, now>>
    /\ UNCHANGED elsewhere

\* ------------------------------------------------ sessionChat: chat:typing:*

\* chat:typing:start: broadcast only, no timer
ChatTypingStart(s, c) ==
    /\ snapshot = "sessionChat"
    /\ Invoke(s)
    /\ inbox' = toRoom(inbox, s, c, TypingEvent("start", c, UserOf(s)))
    /\ UNCHANGED <<snapshot, storeUp, conversations, messages, rooms, h, joinPc>>
    /\ UNCHANGED timing
    /\ UNCHANGED elsewhere

\* chat:typing:stop: broadcast only
ChatTypingStop(s, c) ==
    /\ snapshot = "sessionChat"
    /\ Invoke(s)
    /\ inbox' = toRoom(inbox, s, c, TypingEvent("stop", c, UserOf(s)))
    /\ UNCHANGED <<snapshot, storeUp, conversations, messages, rooms, h, joinPc>>
    /\ UNCHANGED timing
    /\ UNCHANGED elsewhere

\* ------------------------------------------------------ messaging: disconnect

\* a socket that went away: it takes no further client event
Disconnected == [Idle EXCEPT !.op = "disconnected"]

Connected(s) == h[s].op \notin {"disconnect", "disconnected"}

\* user:status:changed { isOnline: false }
OfflineEvent(u) == Event("status", "offline", 0, 0, u, NoContent, {}, {})

\* io.emit(event, payload): every connected socket
emitToAll(box, e) ==
    [t \in Sessions |-> IF Connected(t) THEN Append(box[t], e) ELSE box[t]]

\* the socket closes and leaves its rooms; the disconnect handler runs up to
\* its await
Disconnect(s) ==
    /\ snapshot = "messaging"
    /\ Invoke(s)
    /\ h' = [h EXCEPT ![s] = [Idle EXCEPT !.op = "disconnect", !.pc = "offline"]]
    /\ rooms' = [rooms EXCEPT ![s] = {}]
    /\ UNCHANGED <<snapshot, storeUp, conversations, messages, inbox, joinPc>>
    /\ UNCHANGED timing
    /\ UNCHANGED elsewhere

\* setUserOffline resolves: the status change goes to every socket; a failure
\* is logged
DisconnectOffline(s) ==
    /\ snapshot = "messaging"
    /\ h[s].op = "disconnect" /\ h[s].pc = "offline"
    /\ h' = [h EXCEPT ![s] = Disconnected]
    /\ isOnline' = IF storeUp THEN [isOnline EXCEPT ![UserOf(s)] = FALSE]
                   ELSE isOnline
    /\ inbox' = IF storeUp THEN emitToAll(inbox, OfflineEvent(UserOf(s))) ELSE inbox
    /\ UNCHANGED <<snapshot, storeUp, conversations, messages, rooms, joinPc, ops>>
    /\ UNCHANGED timing
    /\ UNCHANGED <<allStaff, orders, tables, tableSessions>>

\* user:status:changed { isOnline: true }
OnlineEvent(u) == Event("status", "online", 0, 0, u, NoContent, {}, {})

\* user:online up to its await
UserOnlineStart(s) ==
    /\ snapshot = "messaging"
    /\ Invoke(s)
    /\ h' = [h EXCEPT ![s] = [Idle EXCEPT !.op = "online", !.pc = "set"]]
    /\ UNCHANGED <<snapshot, storeUp, conversations, messages, rooms, inbox, joinPc>>
    /\ UNCHANGED timing
    /\ UNCHANGED elsewhere

\* setUserOnline resolves: the status change goes to every socket; a failure
\* is reported to the socket
UserOnlineSet(s) ==
    /\ snapshot = "messaging"
    /\ h[s].op = "online" /\ h[s].pc = "set"
    /\ h' = done(s)
    /\ isOnline' = IF storeUp THEN [isOnline EXCEPT ![UserOf(s)] = TRUE]
                   ELSE isOnline
    /\ inbox' = IF storeUp THEN emitToAll(inbox, OnlineEvent(UserOf(s)))
                ELSE emit(inbox, s, ErrorEvent("failed"))
    /\ UNCHANGED <<snapshot, storeUp, conversations, messages, rooms, joinPc, ops>>
    /\ UNCHANGED timing
    /\ UNCHANGED <<allStaff, orders, tables, tableSessions>>

\* ------------------------------------------------------- messaging: dm:read

\* dm:read up to its await
DmReadStart(s, c) ==
    /\ snapshot = "messaging"
    /\ Invoke(s)
    /\ h' = [h EXCEPT ![s] = [Idle EXCEPT !.op = "read", !.pc = "markRead",
                                 !.conv = c]]
    /\ UNCHANGED <<snapshot, storeUp, conversations, messages, rooms, inbox, joinPc>>
    /\ UNCHANGED timing
    /\ UNCHANGED elsewhere

\* the dm:read payload: the ids that changed
DmReadEvent(c, u, ids) == Event("read", "", c, 0, u, NoContent, {}, ids)

\* a dm:read that reports every message of the others in the conversation
DmReadMarkReportsAll(s) ==
    /\ snapshot = "messaging"
    /\ h[s].op = "read" /\ h[s].pc = "markRead"
    /\ h' = done(s)
    /\ LET c == h[s].conv
           ids == unreadMessageIds(c, UserOf(s))
           all == {i \in 1..Len(messages) :
                      messages[i].conv = c /\ messages[i].sender # UserOf(s)}
       IN /\ messages' =
               [i \in 1..Len(messages) |->
                  IF i \in ids
                  THEN [messages[i] EXCEPT !.readBy = @ \cup {UserOf(s)}]
                  ELSE messages[i]]
          /\ conversations' =
               IF c \in ConvIds
               THEN [conversations EXCEPT ![c].unread[UserOf(s)] = 0]
               ELSE conversations
          /\ inbox' =
               IF all = {} THEN inbox
               ELSE broadcast(inbox, s, c, DmReadEvent(c, UserOf(s), all))
    /\ UNCHANGED <<snapshot, storeUp, rooms, joinPc, ops>>
    /\ UNCHANGED timing
    /\ UNCHANGED elsewhere

\* markMessagesAsRead resolves; the ids that changed, if any, go to the room
\* as dm:read; a failure is logged
DmReadMark(s) ==
    /\ snapshot = "messaging"
    /\ h[s].op = "read" /\ h[s].pc = "markRead"
    /\ h' = done(s)
    /\ IF ~storeUp
       THEN UNCHANGED <<messages, conversations, inbox>>
       ELSE LET c == h[s].conv
                ids == unreadMessageIds(c, UserOf(s))
            IN /\ messages' =
                    [i \in 1..Len(messages) |->
                       IF i \in ids
                       THEN [messages[i] EXCEPT !.readBy = @ \cup {UserOf(s)}]
                       ELSE messages[i]]
               /\ conversations' =
                    IF c \in ConvIds
                    THEN [conversations EXCEPT ![c].unread[UserOf(s)] = 0]
                    ELSE conversations
               /\ inbox' =
                    IF ids = {} THEN inbox
                    ELSE broadcast(inbox, s, c, DmReadEvent(c, UserOf(s), ids))
    /\ UNCHANGED <<snapshot, storeUp, rooms, joinPc, ops>>
    /\ UNCHANGED timing
    /\ UNCHANGED elsewhere

\* ------------------------------------------- socketEvents: chat:messages:read

\* handleChatMessagesRead up to its await; new ObjectId of a malformed id
\* throws into the catch, which logs
ChatMessagesReadStart(s, c) ==
    /\ snapshot = "socketEvents"
    /\ Invoke(s)
    /\ IF ~isValidId(c)
       THEN h' = h
       ELSE h' = [h EXCEPT ![s] = [Idle EXCEPT !.op = "read", !.pc = "update",
                                      !.conv = c]]
    /\ UNCHANGED <<snapshot, storeUp, conversations, messages, rooms, inbox, joinPc>>
    /\ UNCHANGED timing
    /\ UNCHANGED elsewhere

\* chat:read:updated { conversationId, userId, readAt }
ReadUpdatedEvent(c, u) == Event("read", "updated", c, 0, u, NoContent, {}, {})

\* a handler that resets every participant's counter
ChatMessagesReadResetsAll(s) ==
    /\ snapshot = "socketEvents"
    /\ h[s].op = "read" /\ h[s].pc = "update"
    /\ h' = done(s)
    /\ LET c == h[s].conv IN
         /\ conversations' =
              IF c \in ConvIds
              THEN [conversations EXCEPT ![c].unread = [u \in Users |-> 0]]
              ELSE conversations
         /\ inbox' = toRoom(inbox, s, c, ReadUpdatedEvent(c, UserOf(s)))
    /\ UNCHANGED <<snapshot, storeUp, messages, rooms, joinPc, ops>>
    /\ UNCHANGED timing
    /\ UNCHANGED elsewhere

\* updateOne({ _id }, { $set: { unreadCounts.<userId>: 0 } }) resolves, then
\* socket.to(conversationId).emit("chat:read:updated"); a failure is logged
ChatMessagesReadUpdate(s) ==
    /\ snapshot = "socketEvents"
    /\ h[s].op = "read" /\ h[s].pc = "update"
    /\ h' = done(s)
    /\ IF ~storeUp
       THEN UNCHANGED <<conversations, inbox>>
       ELSE LET c == h[s].conv IN
            /\ conversations' =
                 IF c \in ConvIds
                 THEN [conversations EXCEPT ![c].unread[UserOf(s)] = 0]
                 ELSE conversations
            /\ inbox' = toRoom(inbox, s, c, ReadUpdatedEvent(c, UserOf(s)))
    /\ UNCHANGED <<snapshot, storeUp, messages, rooms, joinPc, ops>>
    /\ UNCHANGED timing
    /\ UNCHANGED elsewhere

\* ------------------------------------------------------------- environment

StoreDown ==
    /\ storeUp
    /\ storeUp' = FALSE
    /\ UNCHANGED <<snapshot, conversations, messages, rooms, inbox, h, joinPc, ops>>
    /\ UNCHANGED timing
    /\ UNCHANGED elsewhere

StoreUp ==
    /\ ~storeUp
    /\ storeUp' = TRUE
    /\ UNCHANGED <<snapshot, conversations, messages, rooms, inbox, h, joinPc, ops>>
    /\ UNCHANGED timing
    /\ UNCHANGED elsewhere

\* ------------------------------------------------------------------- init

\* Rows that exist when socket 1 connects: the All Staff group, which every
\* user joined earlier, and the direct conversation of users 1 and 3.
InitConversations ==
    << Conversation(1, "group", ALL_STAFF_SLUG, Users),
       Conversation(2, "direct", DirectSlug(1, 3), {1, 3}) >>

\* Sockets 2 and 3 connected earlier and sit in the rooms of their users'
\* conversations (socket 2 is also a POS cashier); socket 1 has just connected.
InitRooms(sn) ==
    [s \in Sessions |->
        IF s = 1 THEN {}
        ELSE {c \in 1..Len(InitConversations) :
                 UserOf(s) \in InitConversations[c].participants}
             \cup (IF sn = "sessionChat" /\ s = 2 THEN {PosRoom} ELSE {})]

Snapshots == {"chatEvents", "socketEvents", "messaging", "sessionChat"}

\* the participants array behind InitConversations[1].participants
InitAllStaff == <<1, 2, 3>>

\* the users of sockets 2 and 3 announced user:online earlier
InitOnline == [u \in Users |-> u \in {1, 2}]

\* table 1 is free
InitTables == [t \in Tables |-> [status |-> "available", currentSessionId |-> 0]]

Init ==
    /\ snapshot \in Snapshots
    /\ storeUp = TRUE
    /\ conversations = InitConversations
    /\ messages = <<>>
    /\ rooms = InitRooms(snapshot)
    /\ inbox = [s \in Sessions |-> <<>>]
    /\ h = [s \in Sessions |-> Idle]
    /\ joinPc = [s \in Sessions |->
                    IF snapshot = "chatEvents" /\ s = 1 THEN "allStaff" ELSE "done"]
    /\ ops = 0
    /\ typingTimers = NoTimers
    /\ timeouts = {}
    /\ now = 0
    /\ allStaff = InitAllStaff
    /\ isOnline = InitOnline
    /\ orders = <<>>
    /\ tables = InitTables
    /\ tableSessions = <<>>

\* a step of the handlers of the deployed snapshot
Handlers ==
    \E s \in Sessions :
        \/ \E c \in ConvInputs, content \in Contents : MessageSendStart(s, c, content)
        \/ MessageSendFind(s)
        \/ MessageSendCreate(s)
        \/ MessageSendUpdate(s)
        \/ MessageSendEmit(s)
        \/ JoinAllStaff(s)
        \/ JoinDirectRooms(s)
        \/ \E c \in ConvInputs : MessagesReadStart(s, c)
        \/ MessagesReadUpdate(s)
        \/ \E c \in ConvInputs, in \in ChatInputs :
              ChatMessageSendStart(s, c, in.content, in.atts)
        \/ ChatMessageSendFind(s)
        \/ ChatMessageSendCreate(s)
        \/ ChatMessageSendUpdate(s)
        \/ ChatMessageSendEmit(s)
        \/ ChatConversationsLoadStart(s)
        \/ ChatConversationsLoadFind(s)
        \/ \E c \in ConvInputs, content \in Contents : DmSendStart(s, c, content)
        \/ DmSendFind(s)
        \/ DmSendInsert(s)
        \/ DmSendEmit(s)
        \/ \E c \in ConvInputs : DmConversationJoinStart(s, c)
        \/ DmConversationJoinFind(s)
        \/ DmConversationJoinMarkRead(s)
        \/ \E c \in SessionRooms : ChatJoin(s, c)
        \/ \E c \in SessionRooms, content \in Contents, role \in Roles :
              ChatSendStart(s, c, content, role)
        \/ ChatSendCreate(s)
        \/ ChatSendEmit(s)

Next == StoreDown \/ StoreUp \/ Handlers

Spec == Init /\ [][Next]_vars

\* the same handlers over a store that stays reachable
SpecReliable == Init /\ [][Handlers]_vars

\* ------------------------------------------- direct conversations on their own

InitDirect == Init /\ snapshot \in {"chatEvents", "socketEvents"}

NextDirect ==
    \/ StoreDown
    \/ StoreUp
    \/ \E s \in Sessions :
        \/ JoinAllStaff(s)
        \/ JoinDirectRooms(s)
        \/ \E target \in Users : DirectGetOrCreateStart(s, target)
        \/ DirectGetOrCreateFind(s)
        \/ DirectGetOrCreateCreate(s)
        \/ DirectGetOrCreateReady(s)
        \/ \E target \in Users : ChatDirectGetOrCreateStart(s, target)
        \/ ChatDirectGetOrCreateFind(s)
        \/ ChatDirectGetOrCreateUsers(s)
        \/ ChatDirectGetOrCreateInsert(s)
        \/ ChatDirectGetOrCreateRefetch(s)

SpecDirect == InitDirect /\ [][NextDirect]_vars

\* ------------------------------------------------------ history loads on their own

\* how many messages conversation 1 holds when the loads begin
Histories == {0, MESSAGES_LIMIT, MESSAGES_LIMIT + 1}

\* n messages of user 2 in conversation 1, each sent to completion
History(sn, n) ==
    [i \in 1..n |->
        [id |-> i, conv |-> 1, sender |-> 2,
         content |-> [lead |-> 0, core |-> 1, trail |-> 0], atts |-> 0,
         readBy |-> IF sn = "chatEvents" THEN {2} ELSE {}]]

\* conversation 1 after those sends
Sent(sn, n) ==
    IF n = 0 THEN InitConversations
    ELSE [InitConversations EXCEPT
            ![1].last = [content |-> [lead |-> 0, core |-> 1, trail |-> 0],
                         sender |-> 2, at |-> n],
            ![1].updatedAt = n,
            ![1].unread = IF sn = "chatEvents" THEN @
                          ELSE [u \in Users |-> IF u = 2 THEN 0 ELSE n]]

InitLoad ==
    /\ snapshot \in {"chatEvents", "socketEvents"}
    /\ storeUp = TRUE
    /\ \E n \in Histories :
          /\ messages = History(snapshot, n)
          /\ conversations = Sent(snapshot, n)
    /\ rooms = InitRooms(snapshot)
    /\ inbox = [s \in Sessions |-> <<>>]
    /\ h = [s \in Sessions |-> Idle]
    /\ joinPc = [s \in Sessions |-> "done"]
    /\ ops = 0
    /\ typingTimers = NoTimers
    /\ timeouts = {}
    /\ now = 0
    /\ allStaff = InitAllStaff
    /\ isOnline = InitOnline
    /\ orders = <<>>
    /\ tables = InitTables
    /\ tableSessions = <<>>

\* the sockets that page through history: one of user 1, one of user 2
Loaders == {2, 3}

NextLoad ==
    \E s \in Loaders :
        \/ \E c \in LoadConvInputs, cursor \in CursorInputs :
              MessagesLoadStart(s, c, cursor)
        \/ MessagesLoadFind(s)
        \/ MessagesLoadQuery(s)
        \/ \E c \in LoadConvInputs, before \in CursorInputs, limit \in LimitInputs :
              ChatMessagesLoadStart(s, c, before, limit)
        \/ ChatMessagesLoadFind(s)
        \/ ChatMessagesLoadQuery(s)
        \/ ChatMessagesLoadReset(s)

SpecLoad == InitLoad /\ [][NextLoad]_vars

\* ------------------------------------------------------- typing on its own

InitTyping == Init /\ snapshot = "messaging"

NextTyping ==
    \/ Tick
    \/ \E t \in timeouts : TypingTimerFires(t)
    \/ \E s \in Sessions, c \in {1, 2} : DmTypingStart(s, c)

SpecTyping == InitTyping /\ [][NextTyping]_vars

\* ---------------------------------- typing with stops and sessions that leave

InitTypingSessions == Init /\ snapshot \in {"messaging", "sessionChat"}

NextTypingSessions ==
    \/ Tick
    \/ \E t \in timeouts : TypingTimerFires(t)
    \/ \E s \in Sessions, c \in {1, 2} : DmTypingStart(s, c)
    \/ \E s \in Sessions, c \in {1, 2} : DmTypingStop(s, c)
    \/ \E s \in Sessions : Disconnect(s)
    \/ \E s \in Sessions : DisconnectOffline(s)
    \/ \E s \in Sessions, c \in SessionRooms : ChatTypingStart(s, c)
    \/ \E s \in Sessions, c \in SessionRooms : ChatTypingStop(s, c)

SpecTypingSessions == InitTypingSessions /\ [][NextTypingSessions]_vars

\* ------------------------------------------------------ read receipts on their own

\* a one-character body
Hello == [lead |-> 0, core |-> 1, trail |-> 0]

\* Messages sent to completion earlier: one of user 2 and one of user 1 in
\* the group, one of user 3 in the direct conversation of users 1 and 3.
Received(sn) ==
    [i \in 1..3 |->
        LET from == IF i = 1 THEN 2 ELSE IF i = 2 THEN 1 ELSE 3 IN
        [id |-> i, conv |-> IF i = 3 THEN 2 ELSE 1, sender |-> from,
         content |-> Hello, atts |-> 0,
         readBy |-> IF sn = "socketEvents" THEN {} ELSE {from}]]

\* the conversations after those sends
Unread(sn) ==
    [InitConversations EXCEPT
        ![1].last = [content |-> Hello, sender |-> 1, at |-> 2],
        ![1].updatedAt = 2,
        ![1].unread = IF sn = "chatEvents" THEN @
                      ELSE [u \in Users |-> IF u = 3 THEN 2 ELSE 1],
        ![2].last = [content |-> Hello, sender |-> 3, at |-> 3],
        ![2].updatedAt = 3,
        ![2].unread = IF sn = "chatEvents" THEN @
                      ELSE [u \in Users |-> IF u = 1 THEN 1 ELSE 0]]

InitRead ==
    /\ snapshot \in {"chatEvents", "socketEvents", "messaging"}
    /\ storeUp = TRUE
    /\ messages = Received(snapshot)
    /\ conversations = Unread(snapshot)
    /\ rooms = InitRooms(snapshot)
    /\ inbox = [s \in Sessions |-> <<>>]
    /\ h = [s \in Sessions |-> Idle]
    /\ joinPc = [s \in Sessions |-> "done"]
    /\ ops = 0
    /\ typingTimers = NoTimers
    /\ timeouts = {}
    /\ now = 0
    /\ allStaff = InitAllStaff
    /\ isOnline = InitOnline
    /\ orders = <<>>
    /\ tables = InitTables
    /\ tableSessions = <<>>

NextRead ==
    \E s \in Sessions :
        \/ \E c \in ConvInputs : MessagesReadStart(s, c)
        \/ MessagesReadUpdate(s)
        \/ \E c \in {1, 2} : MessageSendStart(s, c, Hello)
        \/ MessageSendFind(s)
        \/ MessageSendCreate(s)
        \/ MessageSendUpdate(s)
        \/ MessageSendEmit(s)
        \/ \E c \in ConvInputs : ChatMessagesReadStart(s, c)
        \/ ChatMessagesReadUpdate(s)
        \/ \E c \in ConvInputs : DmReadStart(s, c)
        \/ DmReadMark(s)
        \/ \E c \in ConvInputs : DmConversationJoinStart(s, c)
        \/ DmConversationJoinFind(s)
        \/ DmConversationJoinMarkRead(s)
        \/ \E c \in {1, 2} : DmSendStart(s, c, Hello)
        \/ DmSendFind(s)
        \/ DmSendInsert(s)
        \/ DmSendEmit(s)

SpecRead == InitRead /\ [][NextRead]_vars

\* the same handlers over a store that may be unreachable
SpecReadFaulty == InitRead /\ [][StoreDown \/ StoreUp \/ NextRead]_vars

\* --------------------------------------------- customer chat on its own

InitCustomerChat == Init /\ snapshot = "sessionChat"

NextCustomerChat ==
    \E s \in Sessions :
        \/ \E c \in SessionRooms : ChatJoin(s, c)
        \/ \E c \in SessionRooms, role \in Roles : ChatSendStart(s, c, Hello, role)
        \/ ChatSendCreate(s)
        \/ ChatSendEmit(s)
        \/ ChatSendNotifyThrows(s)
        \/ \E t \in Tables : ChatTableJoin(s, t)
        \/ \E t \in Tables, role \in Roles : ChatTableSendStart(s, t, Hello, role)
        \/ ChatTableSendCreate(s)
        \/ ChatTableSendEmit(s)
        \/ ChatTableSendNotifyThrows(s)

SpecCustomerChat == InitCustomerChat /\ [][NextCustomerChat]_vars

\* ---- connects and reconnects of the staff chat (chatEvents), reliable store:
\* the All Staff group is freshly seeded (participants: []), no socket has
\* joined yet
InitStaff ==
    /\ snapshot = "chatEvents"
    /\ storeUp = TRUE
    /\ conversations = [InitConversations EXCEPT ![1].participants = {}]
    /\ messages = <<>>
    /\ rooms = [s \in Sessions |-> {}]
    /\ inbox = [s \in Sessions |-> <<>>]
    /\ h = [s \in Sessions |-> Idle]
    /\ joinPc = [s \in Sessions |-> "allStaff"]
    /\ ops = 0
    /\ typingTimers = NoTimers
    /\ timeouts = {}
    /\ now = 0
    /\ allStaff = <<>>
    /\ isOnline = InitOnline
    /\ orders = <<>>
    /\ tables = InitTables
    /\ tableSessions = <<>>

NextStaff ==
    \E s \in Sessions :
        \/ JoinAllStaff(s)
        \/ JoinDirectRooms(s)
        \/ Reconnect(s)

SpecStaff == InitStaff /\ [][NextStaff]_vars

\* ------------------------------------------- orders (the sessionChat server)

\* `#${String(count + 1).padStart(3, "0")}`: the digits after the #
generateOrderNumber(count) ==
    LET n == count + 1 IN
    IF n < 1000 THEN <<n \div 100, (n \div 10) % 10, n % 10>>
    ELSE <<n \div 1000, (n \div 100) % 10, (n \div 10) % 10, n % 10>>

\* getSessionRoom(sessionId) / `session:${sessionId}`
SessionRoom(k) == 200 + k

\* order:submit: countDocuments({ createdAt: { $gte: today } }) resolves; a
\* rejection is answered with order:submit:error
OrderSubmitCount(s, k, tn) ==
    /\ snapshot = "sessionChat"
    /\ Invoke(s)
    /\ IF ~storeUp
       THEN /\ inbox' = emit(inbox, s, ErrorEvent("order_submit"))
            /\ h' = h
       ELSE /\ inbox' = inbox
            /\ h' = [h EXCEPT ![s] = [Idle EXCEPT !.op = "order", !.pc = "create",
                                         !.count = Len(orders), !.session = k,
                                         !.table = tn]]
    /\ UNCHANGED <<snapshot, storeUp, conversations, messages, rooms, joinPc>>
    /\ UNCHANGED timing
    /\ UNCHANGED elsewhere

\* order:new to the cashiers, then order:submitted to the session room
orderEmitted(s, o) ==
    broadcast(broadcast(inbox, s, PosRoom,
                        [Event("order", "new", o.session, o.id, 0, NoContent,
                               {}, {}) EXCEPT !.page = o.orderNumber]),
              s, SessionRoom(o.session),
              [Event("order", "submitted", o.session, o.id, 0, NoContent,
                     {}, {}) EXCEPT !.page = o.orderNumber])

\* Order.create({ ...order, orderNumber }) resolves; without a table the
\* order is announced at once
OrderSubmitCreate(s) ==
    /\ snapshot = "sessionChat"
    /\ h[s].op = "order" /\ h[s].pc = "create"
    /\ LET o == [id |-> Len(orders) + 1,
                 orderNumber |-> generateOrderNumber(h[s].count),
                 session |-> h[s].session]
       IN IF ~storeUp
          THEN /\ orders' = orders
               /\ inbox' = emit(inbox, s, ErrorEvent("order_submit"))
               /\ h' = done(s)
          ELSE /\ orders' = Append(orders, o)
               /\ IF h[s].table = 0
                  THEN /\ inbox' = orderEmitted(s, o)
                       /\ h' = done(s)
                  ELSE /\ inbox' = inbox
                       /\ h' = [h EXCEPT ![s].pc = "table", ![s].doc = o]
    /\ UNCHANGED <<snapshot, storeUp, conversations, messages, rooms, joinPc, ops>>
    /\ UNCHANGED timing
    /\ UNCHANGED <<allStaff, isOnline, tables, tableSessions>>

\* the update of the order's table resolves (a rejection is only logged),
\* then the order is announced
OrderSubmitTable(s) ==
    /\ snapshot = "sessionChat"
    /\ h[s].op = "order" /\ h[s].pc = "table"
    /\ tables' = IF storeUp /\ h[s].table \in Tables
                 THEN [tables EXCEPT ![h[s].table] =
                          [status |-> "occupied",
                           currentSessionId |-> h[s].session]]
                 ELSE tables
    /\ inbox' = orderEmitted(s, h[s].doc)
    /\ h' = done(s)
    /\ UNCHANGED <<snapshot, storeUp, conversations, messages, rooms, joinPc, ops>>
    /\ UNCHANGED timing
    /\ UNCHANGED <<allStaff, isOnline, orders, tableSessions>>

\* ---------------------------------- table sessions (the sessionChat server)

\* the catch block of table:session:start and table:session:end
sessionFailed(s) ==
    /\ inbox' = emit(inbox, s, ErrorEvent("table_session"))
    /\ h' = done(s)

\* table:updated to the cashiers
tableUpdated(box, s, t, status, k) ==
    broadcast(box, s, PosRoom, Event("table", status, t, k, 0, NoContent, {}, {}))

\* socket.join(sessionRoom), table:session:started to the socket and
\* table:session:new to the cashiers
sessionStarted(box, s, t, k) ==
    /\ rooms' = [rooms EXCEPT ![s] = @ \cup {SessionRoom(k)}]
    /\ inbox' =
         [o \in Sessions |->
            LET mine == IF o = s
                        THEN Append(box[o], Event("session", "started", t, k, 0,
                                                  NoContent, {}, {}))
                        ELSE box[o]
            IN IF PosRoom \in rooms[o]
               THEN Append(mine, Event("session", "new", t, k, 0, NoContent, {}, {}))
               ELSE mine]

\* table:session:start: TableSession.create({ sessionId: randomUUID(), tableId,
\* status: "active" }) resolves; a walk-in session (no table) is announced at once
TableSessionStart(s, t) ==
    /\ snapshot = "sessionChat"
    /\ Invoke(s)
    /\ LET k == Len(tableSessions) + 1 IN
       IF ~storeUp
       THEN /\ inbox' = emit(inbox, s, ErrorEvent("table_session"))
            /\ UNCHANGED <<h, rooms, tableSessions>>
       ELSE /\ tableSessions' =
                 Append(tableSessions, [id |-> k, tableId |-> t, status |-> "active"])
            /\ IF t = 0
               THEN /\ sessionStarted(inbox, s, t, k)
                    /\ h' = h
               ELSE /\ h' = [h EXCEPT ![s] = [Idle EXCEPT !.op = "sessionStart",
                                                  !.pc = "table", !.table = t,
                                                  !.session = k]]
                    /\ UNCHANGED <<rooms, inbox>>
    /\ UNCHANGED <<snapshot, storeUp, conversations, messages, joinPc>>
    /\ UNCHANGED timing
    /\ UNCHANGED <<allStaff, isOnline, orders, tables>>

\* Table.findOneAndUpdate({ tableId }, { status: "occupied", currentSessionId })
\* resolves, then the announcements
TableSessionStartTable(s) ==
    /\ snapshot = "sessionChat"
    /\ h[s].op = "sessionStart" /\ h[s].pc = "table"
    /\ IF ~storeUp
       THEN /\ sessionFailed(s)
            /\ UNCHANGED <<rooms, tables>>
       ELSE /\ tables' = IF h[s].table \in Tables
                         THEN [tables EXCEPT ![h[s].table] =
                                  [status |-> "occupied",
                                   currentSessionId |-> h[s].session]]
                         ELSE tables
            /\ sessionStarted(tableUpdated(inbox, s, h[s].table, "occupied",
                                           h[s].session),
                              s, h[s].table, h[s].session)
            /\ h' = done(s)
    /\ UNCHANGED <<snapshot, storeUp, conversations, messages, joinPc, ops>>
    /\ UNCHANGED timing
    /\ UNCHANGED <<allStaff, isOnline, orders, tableSessions>>

\* table:session:ended to the session room and table:session:closed to the
\* cashiers
sessionEnded(box, s, t, k) ==
    broadcast(broadcast(box, s, SessionRoom(k),
                        Event("session", "ended", 0, k, 0, NoContent, {}, {})),
              s, PosRoom, Event("session", "closed", t, k, 0, NoContent, {}, {}))

\* table:session:end: TableSession.findOneAndUpdate({ sessionId }, { status:
\* "closed" }, { new: true }) resolves
TableSessionEnd(s, k) ==
    /\ snapshot = "sessionChat"
    /\ Invoke(s)
    /\ IF ~storeUp
       THEN /\ inbox' = emit(inbox, s, ErrorEvent("table_session"))
            /\ UNCHANGED <<h, tableSessions>>
       ELSE IF k \notin 1..Len(tableSessions)
       THEN /\ inbox' = emit(inbox, s, ErrorEvent("not_found"))
            /\ UNCHANGED <<h, tableSessions>>
       ELSE /\ tableSessions' = [tableSessions EXCEPT ![k].status = "closed"]
            /\ IF tableSessions[k].tableId = 0
               THEN /\ inbox' = sessionEnded(inbox, s, 0, k)
                    /\ h' = h
               ELSE /\ inbox' = inbox
                    /\ h' = [h EXCEPT ![s] = [Idle EXCEPT !.op = "sessionEnd",
                                                  !.pc = "table", !.session = k,
                                                  !.table = tableSessions[k].tableId]]
    /\ UNCHANGED <<snapshot, storeUp, conversations, messages, rooms, joinPc>>
    /\ UNCHANGED timing
    /\ UNCHANGED <<allStaff, isOnline, orders, tables>>

\* Table.findOneAndUpdate({ tableId }, { status: "available",
\* currentSessionId: null }) resolves, then the announcements
TableSessionEndTable(s) ==
    /\ snapshot = "sessionChat"
    /\ h[s].op = "sessionEnd" /\ h[s].pc = "table"
    /\ IF ~storeUp
       THEN /\ sessionFailed(s)
            /\ tables' = tables
       ELSE /\ tables' = IF h[s].table \in Tables
                         THEN [tables EXCEPT ![h[s].table] =
                                  [status |-> "available", currentSessionId |-> 0]]
                         ELSE tables
            /\ inbox' = sessionEnded(tableUpdated(inbox, s, h[s].table,
                                                  "available", 0),
                                     s, h[s].table, h[s].session)
            /\ h' = done(s)
    /\ UNCHANGED <<snapshot, storeUp, conversations, messages, rooms, joinPc, ops>>
    /\ UNCHANGED timing
    /\ UNCHANGED <<allStaff, isOnline, orders, tableSessions>>

\* ---- the floor: orders and table sessions.  Table 1 is occupied by
\* session 1, started earlier by the customer on socket 3.
InitFloor ==
    /\ snapshot = "sessionChat"
    /\ storeUp = TRUE
    /\ conversations = InitConversations
    /\ messages = <<>>
    /\ rooms = [InitRooms(snapshot) EXCEPT ![3] = @ \cup {SessionRoom(1)}]
    /\ inbox = [s \in Sessions |-> <<>>]
    /\ h = [s \in Sessions |-> Idle]
    /\ joinPc = [s \in Sessions |-> "done"]
    /\ ops = 0
    /\ typingTimers = NoTimers
    /\ timeouts = {}
    /\ now = 0
    /\ allStaff = InitAllStaff
    /\ isOnline = InitOnline
    /\ orders = <<>>
    /\ tables = [InitTables EXCEPT
                    ![1] = [status |-> "occupied", currentSessionId |-> 1]]
    /\ tableSessions = <<[id |-> 1, tableId |-> 1, status |-> "active"]>>

NextFloor ==
    \/ StoreDown
    \/ StoreUp
    \/ \E s \in Sessions :
        \/ \E k \in {1}, tn \in {0} \cup Tables : OrderSubmitCount(s, k, tn)
        \/ OrderSubmitCreate(s)
        \/ OrderSubmitTable(s)
        \/ \E t \in {0} \cup Tables : TableSessionStart(s, t)
        \/ TableSessionStartTable(s)
        \/ \E k \in {1, 2, UnknownId} : TableSessionEnd(s, k)
        \/ TableSessionEndTable(s)

SpecFloor == InitFloor /\ [][NextFloor]_vars

\* ---- presence: user:online and disconnect of the messaging server
InitPresence == Init /\ snapshot = "messaging"

NextPresence ==
    \/ StoreDown
    \/ StoreUp
    \/ \E s \in Sessions :
        \/ UserOnlineStart(s)
        \/ UserOnlineSet(s)
        \/ Disconnect(s)
        \/ DisconnectOffline(s)

SpecPresence == InitPresence /\ [][NextPresence]_vars

\* ================================================================== claims

\* the events a step appends to the inbox of socket t
NewEvents(t) == SubSeq(inbox'[t], Len(inbox[t]) + 1, Len(inbox'[t]))

HasNew(t, e) == \E i \in 1..Len(NewEvents(t)) : NewEvents(t)[i] = e

IsMessageEvent(e) == e.ev = "message"

IsParticipant(u, c) == c \in ConvIds /\ u \in conversations[c].participants

\* socket s takes a step of its handler
Steps(s) == h'[s] # h[s]

\* ---- C1

C1_BroadcastRowsPersisted ==
    \A s \in Sessions : \A i \in 1..Len(inbox[s]) :
        LET e == inbox[s][i] IN
          IsMessageEvent(e) =>
            /\ e.id \in 1..Len(messages)
            /\ messages[e.id].conv = e.conv
            /\ messages[e.id].sender = e.sender
            /\ messages[e.id].content = e.content

C1_FailedPersistIsSilent ==
    \A s \in Sessions :
        (h[s].op = "send" /\ h[s].pc = "create" /\ ~storeUp /\ Steps(s)) =>
            /\ h'[s] = Idle
            /\ messages' = messages
            /\ \A t \in Sessions : \A i \in 1..Len(NewEvents(t)) :
                  ~IsMessageEvent(NewEvents(t)[i])

\* C1: a new-message event reaches a socket only after the Message row it
\* carries has been persisted (every delivered new-message event names a
\* persisted row with the same conversation, sender and content), and a send
\* whose persistence step fails ends without any new-message event.
C1_PersistBeforeBroadcast ==
    []C1_BroadcastRowsPersisted /\ [][C1_FailedPersistIsSilent]_vars

\* a persisted message has been delivered to a socket in its room
C1_Witness ==
    \E s \in Sessions : \E i \in 1..Len(inbox[s]) :
        /\ IsMessageEvent(inbox[s][i])
        /\ inbox[s][i].id \in 1..Len(messages)

\* ---- C2

\* the step in which socket s receives a send for conversation c
SendInvoked(s, c, content) ==
    MessageSendStart(s, c, content) \/ DmSendStart(s, c, content)

\* the membership lookup of the send of socket s resolves
SendLookup(s) == h[s].op = "send" /\ h[s].pc = "find" /\ Steps(s)

\* the send of socket s ends with the access-denied error, to s alone
Denied(s) ==
    /\ h'[s] = Idle
    /\ inbox' = emit(inbox, s, ErrorEvent("denied"))

PersistedUnchanged == UNCHANGED <<conversations, messages, rooms>>

C2_RejectedWithDenied ==
    \A s \in Sessions :
        /\ \A c \in ConvIds, content \in Contents :
              (SendInvoked(s, c, content) /\ ~IsParticipant(UserOf(s), c)) =>
                  /\ PersistedUnchanged
                  /\ Denied(s) \/ (h'[s].op = "send" /\ inbox' = inbox)
        /\ (SendLookup(s) /\ ~IsParticipant(UserOf(s), h[s].conv)) =>
              PersistedUnchanged /\ Denied(s)

\* C2 as stated: every send by a user who is not a participant of the target
\* conversation is rejected with the access-denied error event and changes
\* nothing.
C2_NonParticipantDenied == [][C2_RejectedWithDenied]_vars

C2_PastLookupIsParticipant ==
    \A s \in Sessions :
        (/\ snapshot # "sessionChat"
         /\ h[s].op = "send"
         /\ h[s].pc \in {"create", "update", "emit"}) =>
            IsParticipant(UserOf(s), h[s].conv)

C2_NonParticipantChangesNothing ==
    \A s \in Sessions :
        /\ \A c \in ConvIds, content \in Contents :
              (SendInvoked(s, c, content) /\ ~IsParticipant(UserOf(s), c)) =>
                  /\ PersistedUnchanged
                  /\ \A t \in Sessions \ {s} : inbox'[t] = inbox[t]
        /\ (SendLookup(s) /\ ~IsParticipant(UserOf(s), h[s].conv)) =>
              /\ PersistedUnchanged
              /\ h'[s] = Idle
              /\ \A t \in Sessions \ {s} : inbox'[t] = inbox[t]
              /\ storeUp => Denied(s)

\* C2 amended: a send by a non-participant changes nothing (no row, no
\* conversation update, no broadcast, and its handler never gets past the
\* membership lookup); it is answered with the access-denied error when the
\* payload passed validation and the membership lookup itself succeeded.
C2_NonParticipantDeniedAfterLookup ==
    []C2_PastLookupIsParticipant /\ [][C2_NonParticipantChangesNothing]_vars

\* user 2 was denied on the direct conversation of users 1 and 3
C2_Witness ==
    /\ snapshot \in {"chatEvents", "messaging"}
    /\ ~IsParticipant(UserOf(3), 2)
    /\ \E i \in 1..Len(inbox[3]) : inbox[3][i] = ErrorEvent("denied")
    /\ messages = <<>>

\* ---- C3

\* C3: in every inbox, the new-message events of one conversation appear in
\* increasing message id (a socket that received both m1 and m2 was joined
\* during both broadcasts).
C3_BroadcastsInIdOrder ==
    snapshot \in {"chatEvents", "socketEvents"} =>
        \A s \in Sessions : \A i, j \in 1..Len(inbox[s]) :
            (/\ i < j
             /\ IsMessageEvent(inbox[s][i]) /\ IsMessageEvent(inbox[s][j])
             /\ inbox[s][i].conv = inbox[s][j].conv) =>
                inbox[s][i].id < inbox[s][j].id

\* ---- C4

\* the conversation update of the send of socket s succeeds
SendRecorded(s) ==
    /\ snapshot \in {"chatEvents", "socketEvents"}
    /\ h[s].op = "send" /\ h[s].pc = "update" /\ h'[s].pc = "emit"

C4_OthersPlusOne ==
    \A s \in Sessions :
        SendRecorded(s) =>
            LET c == h[s].conv IN
              \A p \in Users :
                 conversations'[c].unread[p] =
                    IF p \in conversations[c].participants \ {UserOf(s)}
                    THEN conversations[c].unread[p] + 1
                    ELSE conversations[c].unread[p]

\* C4: the conversation update of a successful send raises unreadCounts by
\* exactly 1 for every participant other than the sender and leaves the
\* sender's own count as it was.
C4_UnreadIncrementedOnSend == [][C4_OthersPlusOne]_vars

\* ---- C5

\* users without a socket: they neither load nor mark anything read
Offline == {p \in Users : UserRoom(p) = {}}

MessagesOf(c) == {i \in 1..Len(messages) : messages[i].conv = c}

\* sends on c whose row is persisted and whose conversation update is pending
Recording(c) ==
    {s \in Sessions : h[s].op = "send" /\ h[s].pc = "update" /\ h[s].conv = c}

C5_UnreadCountsEverySend ==
    snapshot = "socketEvents" =>
        \A c \in ConvIds : \A p \in Offline \cap conversations[c].participants :
            conversations[c].unread[p] =
                Cardinality(MessagesOf(c)) - Cardinality(Recording(c))

C5_ReadByKeepsReaders ==
    /\ Len(messages') >= Len(messages)
    /\ \A i \in 1..Len(messages) : messages[i].readBy \subseteq messages'[i].readBy
    /\ \A s \in Sessions :
          (h[s].op = "read" /\ h[s].pc = "update" /\ Steps(s) /\ storeUp) =>
              \A i \in MessagesOf(h[s].conv) :
                  messages[i].sender # UserOf(s) => UserOf(s) \in messages'[i].readBy

\* C5: over a reachable store, the unreadCounts of a participant who does no
\* read equals the number of sends completed on the conversation, whatever
\* the interleaving of the send handlers (no increment is lost); and no step
\* removes a reader from readBy, while each markRead adds its reader to every
\* message of the conversation written by others.
C5_NoLostUpdate ==
    []C5_UnreadCountsEverySend /\ [][C5_ReadByKeepsReaders]_vars

\* one send has been counted for user 3 while another send, which fetched the
\* conversation before that increment, still has its own update pending
C5_Witness ==
    /\ snapshot = "socketEvents"
    /\ \E s \in Sessions :
          /\ h[s].op = "send" /\ h[s].pc = "update"
          /\ 3 \in h[s].doc.participants
          /\ h[s].doc.unread[3] = 0
          /\ conversations[h[s].conv].unread[3] = 1

\* ---- C6

C6_PayloadReadByIsSender ==
    snapshot \in {"chatEvents", "socketEvents"} =>
        \A s \in Sessions : \A i \in 1..Len(inbox[s]) :
            IsMessageEvent(inbox[s][i]) =>
                inbox[s][i].readBy = {inbox[s][i].sender}

C6_PersistedReadByIsSender ==
    (/\ snapshot \in {"chatEvents", "socketEvents"}
     /\ Len(messages') = Len(messages) + 1) =>
        messages'[Len(messages')].readBy = {messages'[Len(messages')].sender}

\* C6: a message's readBy is exactly {senderId} when its row is persisted and
\* in the payload of its new-message broadcast.
C6_ReadByIsSender ==
    []C6_PayloadReadByIsSender /\ [][C6_PersistedReadByIsSender]_vars

\* ---- C7

\* C7: every persisted Message row has a trimmed, non-empty content of at
\* most 5000 characters, or carries at least one attachment.
C7_PersistedContentValid ==
    snapshot \in {"chatEvents", "socketEvents"} =>
        \A i \in 1..Len(messages) :
            \/ /\ messages[i].content = trim(messages[i].content)
               /\ messages[i].content.core > 0
               /\ length(messages[i].content) <= MaxContentLength
            \/ messages[i].atts > 0

\* ---- C8

\* the broadcast of the send of socket s
SendBroadcast(s) == h[s].op = "send" /\ h[s].pc = "emit" /\ Steps(s)

C8_EveryRoomMemberReceives ==
    \A s \in Sessions :
        SendBroadcast(s) =>
            \A t \in Sessions :
                h[s].conv \in rooms[t] => HasNew(t, NewMessageEvent(h[s].msg))

\* C8: the new-message broadcast of a successful send is delivered to every
\* socket that is in the conversation's room at that moment, the sender's own
\* socket(s) included.
C8_DeliveredToWholeRoom == [][C8_EveryRoomMemberReceives]_vars

\* both devices of user 1 hold the new-message event of a message user 1 sent
C8_Witness ==
    \E i \in 1..Len(inbox[1]), j \in 1..Len(inbox[2]) :
        /\ IsMessageEvent(inbox[1][i])
        /\ inbox[1][i] = inbox[2][j]
        /\ inbox[1][i].sender = UserOf(1)
        /\ UserOf(1) = UserOf(2)

\* ---- C9

\* C9: no two direct conversations have the same pair of participants.
C9_OneDirectPerPair ==
    \A c, d \in ConvIds :
        (/\ conversations[c].type = "direct" /\ conversations[d].type = "direct"
         /\ conversations[c].participants = conversations[d].participants) =>
            c = d

\* ---- C10

IsDirectEvent(e) == e.ev = "direct"

\* C10: whichever of the two users asks, getOrCreateDirect answers with the
\* same conversation id: two answers naming conversations of the same pair
\* name the same conversation.
C10_SameConversationEitherOrder ==
    \A s, t \in Sessions : \A i \in 1..Len(inbox[s]), j \in 1..Len(inbox[t]) :
        (/\ IsDirectEvent(inbox[s][i]) /\ IsDirectEvent(inbox[t][j])
         /\ conversations[inbox[s][i].conv].participants =
               conversations[inbox[t][j].conv].participants) =>
            inbox[s][i].conv = inbox[t][j].conv

\* ---- C11

\* getOrCreateDirect of socket s, which created conversation h[s].conv,
\* completes with its answer to the requester
DirectCreatedCompletes(s) ==
    /\ h[s].op = "direct" /\ h[s].conv # 0
    /\ h'[s] = Idle
    /\ \E i \in 1..Len(NewEvents(s)) :
          IsDirectEvent(NewEvents(s)[i]) /\ NewEvents(s)[i].conv = h[s].conv

C11_BothUsersJoined ==
    \A s \in Sessions :
        DirectCreatedCompletes(s) =>
            \A t \in UserRoom(UserOf(s)) \cup UserRoom(h[s].target) :
                h[s].conv \in rooms'[t]

\* C11: when getOrCreateDirect has created a direct conversation, every
\* connected socket of the requester and of the target user is in the new
\* conversation's room by the time the operation completes.
C11_CreatedDirectJoinsBothUsers == [][C11_BothUsersJoined]_vars

\* ---- C12

C12_SubscribedOnlyIfParticipant ==
    snapshot \in {"chatEvents", "messaging"} =>
        \A s \in Sessions : \A c \in rooms[s] \cap ConvIds :
            IsParticipant(UserOf(s), c)

\* the participant check of the dm:conversation:join of socket s resolves
JoinLookup(s) == h[s].op = "join" /\ h[s].pc = "find" /\ Steps(s)

C12_NonParticipantJoinFails ==
    \A s \in Sessions :
        (JoinLookup(s) /\ ~IsParticipant(UserOf(s), h[s].conv)) =>
            /\ rooms' = rooms
            /\ h'[s] = Idle
            /\ \E i \in 1..Len(NewEvents(s)) : NewEvents(s)[i].ev = "error"

\* C12: a socket is in a conversation's room only if its user is in the
\* conversation's persisted participants, and a dm:conversation:join by a
\* non-participant ends with an error event to the requester and leaves the
\* joined rooms as they were.
C12_OnlyParticipantsJoin ==
    []C12_SubscribedOnlyIfParticipant /\ [][C12_NonParticipantJoinFails]_vars

\* user 2 asked to join the direct conversation of users 1 and 3, was
\* answered with the access error and is not in its room
C12_Witness ==
    /\ snapshot = "messaging"
    /\ \E i \in 1..Len(inbox[3]) : inbox[3][i] = ErrorEvent("denied")
    /\ 2 \notin rooms[3]
    /\ h[3] = Idle
    /\ messages = <<>>

\* ---- C13

C13_JoinedWithoutRequest ==
    \A s \in Sessions :
        (snapshot \in {"chatEvents", "messaging"} /\ SendBroadcast(s)) =>
            \A t \in Sessions :
                (joinPc[t] = "done" /\ IsParticipant(UserOf(t), h[s].conv)) =>
                    HasNew(t, NewMessageEvent(h[s].msg))

\* C13: once a socket's connection is established (its connect-time join pass
\* is over), a message sent to any conversation whose persisted participants
\* contain its user is delivered to it, without the client having asked to
\* join.
C13_ConnectedParticipantsReceive ==
    [][C13_JoinedWithoutRequest]_vars

\* ---- C14

\* the load of socket s is answered with a page
LoadAnswered(s) ==
    /\ h[s].op = "load" /\ h'[s] = Idle
    /\ Len(NewEvents(s)) = 1 /\ NewEvents(s)[1].ev = "loaded"

\* the page limit in force for the load of socket s
LimitOf(s) == IF snapshot = "chatEvents" THEN MESSAGES_LIMIT ELSE h[s].limit

\* the messages of the conversation the load of socket s may return
Eligible(s) ==
    {i \in MessagesOf(h[s].conv) : h[s].cursor = NoCursor \/ i < h[s].cursor}

Elements(q) == {q[i] : i \in 1..Len(q)}

C14_PageIsNewestAscending ==
    \A s \in Sessions :
        LoadAnswered(s) =>
            LET p == NewEvents(s)[1].page IN
              /\ Len(p) = IF Cardinality(Eligible(s)) < LimitOf(s)
                          THEN Cardinality(Eligible(s)) ELSE LimitOf(s)
              /\ Elements(p) \subseteq Eligible(s)
              /\ \A x \in Eligible(s) \ Elements(p) : \A y \in Elements(p) : x < y
              /\ \A i, j \in 1..Len(p) : i < j => p[i] < p[j]

\* C14: a loaded page holds the min(limit, n) newest messages of the
\* conversation with id below the cursor (all messages without a cursor), in
\* strictly ascending id order.
C14_LoadReturnsNewestAscending == [][C14_PageIsNewestAscending]_vars

\* ---- C15

C15_HasMoreIffOlderExists ==
    \A s \in Sessions :
        LoadAnswered(s) =>
            LET e == NewEvents(s)[1] IN
              e.hasMore <=>
                 \E x \in Eligible(s) : \A y \in Elements(e.page) : x < y

\* C15: hasMore of a loaded page is true exactly when the conversation holds
\* a message older than every message of the page.
C15_HasMoreExact == [][C15_HasMoreIffOlderExists]_vars

\* ---- C16

\* the answer of the deployed snapshot to load(c, cursor, limit)
Answer(c, cursor, limit) ==
    IF snapshot = "chatEvents" THEN messagesLoaded(c, cursor)
    ELSE chatMessagesLoaded(c, chatMessages(c, cursor, limit), limit)

\* the pages from `cursor` on, every next cursor the last id of the page
\* before, concatenated in reverse page order
RECURSIVE PagesFrom(_, _, _)
PagesFrom(c, cursor, limit) ==
    LET e == Answer(c, cursor, limit) IN
      IF ~e.hasMore \/ e.page = <<>> THEN e.page
      ELSE PagesFrom(c, e.page[Len(e.page)], limit) \o e.page

\* the ids of the messages of c, ascending
HistoryOf(c) ==
    reverse(newestFrom(MessagesOf(c), Len(messages), Len(messages)))

\* C16: paging from no cursor until hasMore is false, each page's
\* last-returned id the next cursor, and concatenating the pages in reverse
\* page order gives the conversation's history in ascending id order, gapless
\* and duplicate-free.
C16_PagesReproduceHistory ==
    \A limit \in (IF snapshot = "chatEvents" THEN {MESSAGES_LIMIT} ELSE LimitInputs) :
        PagesFrom(1, NoCursor, limit) = HistoryOf(1)

\* ---- C17

\* the participant check of the load of socket s resolves
LoadLookup(s) == h[s].op = "load" /\ h[s].pc = "find" /\ Steps(s)

C17_NotFoundAnswer ==
    \A s \in Sessions :
        (LoadLookup(s) /\ ~IsParticipant(UserOf(s), h[s].conv)) =>
            /\ inbox' = emit(inbox, s, ErrorEvent("not_found"))
            /\ h'[s] = Idle
            /\ PersistedUnchanged

C17_PagesOnlyToParticipants ==
    \A s \in Sessions :
        /\ \A i \in 1..Len(inbox[s]) :
              inbox[s][i].ev = "loaded" => IsParticipant(UserOf(s), inbox[s][i].conv)
        /\ (h[s].op = "load" /\ h[s].pc \in {"query", "reset"}) =>
              IsParticipant(UserOf(s), h[s].conv)

C18_NewestLastAndUnreadZero ==
    \A s \in Sessions :
        (/\ LoadAnswered(s)
         /\ h[s].cursor = NoCursor
         /\ MessagesOf(h[s].conv) # {}) =>
            LET p == NewEvents(s)[1].page IN
              /\ p # <<>>
              /\ \A x \in MessagesOf(h[s].conv) : x <= p[Len(p)]
              /\ conversations'[h[s].conv].unread[UserOf(s)] = 0

\* C18: a first-page load (no cursor) of a conversation that holds sent
\* messages returns the newest message as the last element of the page and
\* leaves the loader's unreadCounts entry for the conversation at 0.
C18_SendThenLoadRoundTrip == [][C18_NewestLastAndUnreadZero]_vars

\* ---- C19

\* the typing events of user u in conversation c, as socket o received them
TypingLog(o, c, u) ==
    LET OfKey(e) == e.ev = "typing" /\ e.conv = c /\ e.sender = u
    IN SelectSeq(inbox[o], OfKey)

\* the timeouts pending for the key of (c, u)
Pending(c, u) == {t \in timeouts : t.conv = c /\ UserOf(t.socket) = u}

C19_OneStopPerBurst ==
    \A o \in Sessions, c \in {1, 2}, u \in Users :
        (c \in rooms[o] /\ UserOf(o) # u) =>
            LET L == TypingLog(o, c, u) IN
              /\ \A i \in 1..Len(L) :
                    L[i].kind = "stop" =>
                        /\ i > 1
                        /\ L[i - 1].kind = "start"
                        /\ L[i].id >= L[i - 1].id + TypingTimeout
              /\ Cardinality(Pending(c, u)) <= 1
              /\ Pending(c, u) = {} <=> (L = <<>> \/ L[Len(L)].kind = "stop")

\* C19: with no explicit stop, the typing starts of one user in one
\* conversation that follow each other within 3 seconds are answered by
\* exactly one typing-stop: every stop follows a start directly and comes at
\* least 3 seconds after it, and while the last start is unanswered exactly
\* one timeout is pending for the pair.
C19_BurstYieldsOneStop == C19_OneStopPerBurst

\* socket 3 saw user 1 start typing in conversation 1 twice within 3 seconds
\* and then one stop, and no timeout is pending
C19_Witness ==
    LET L == TypingLog(3, 1, 1) IN
      /\ Len(L) = 3
      /\ L[1].kind = "start" /\ L[2].kind = "start" /\ L[3].kind = "stop"
      /\ L[2].id - L[1].id < TypingTimeout
      /\ L[2].id > L[1].id
      /\ Pending(1, 1) = {}

\* ---- C20

C20_OnlyReplacesTimer ==
    \A s \in Sessions, c \in {1, 2} :
        (DmTypingStart(s, c) /\ typingTimers[timerKey(c, UserOf(s))] # NoHandle) =>
            /\ inbox' = inbox
            /\ Cardinality({t \in timeouts' :
                              t.conv = c /\ UserOf(t.socket) = UserOf(s)}) = 1

\* C20: a typing start that arrives while the pair's timer is armed only
\* replaces the timer: it broadcasts no further typing-begin event.
C20_NoDuplicateBegin == [][C20_OnlyReplacesTimer]_vars

\* ---- C21

\* the timeouts that will fire on behalf of (c, u) after the step
PendingAfter(c, u) == {t \in timeouts' : t.conv = c /\ UserOf(t.socket) = u}

C21_StopCancelsAndBroadcasts ==
    \A s \in Sessions, c \in {1, 2} :
        (DmTypingStop(s, c) \/ ChatTypingStop(s, c)) =>
            /\ \A o \in Sessions :
                  NewEvents(o) =
                      IF c \in rooms[o] /\ o # s
                      THEN <<TypingEvent("stop", c, UserOf(s))>>
                      ELSE <<>>
            /\ typingTimers'[timerKey(c, UserOf(s))] = NoHandle
            /\ PendingAfter(c, UserOf(s)) = {}

C21_TimeoutOnlyWhileArmed ==
    \A t \in timeouts :
        TypingTimerFires(t) =>
            typingTimers[timerKey(t.conv, UserOf(t.socket))] = t.handle

C21_StopStep == C21_StopCancelsAndBroadcasts /\ C21_TimeoutOnlyWhileArmed

\* C21: an explicit typing stop of a (conversation, user) pair broadcasts
\* exactly one typing-stop to every other socket of the room and to nobody
\* else, and leaves no table entry and no pending timeout for the pair; a
\* timeout fires only for the timer its pair's table entry holds, so none
\* fires after the stop until a new start arms one.
C21_ExplicitStopCancels == [][C21_StopStep]_vars

\* socket 3 saw user 1 start typing in conversation 1 and stop within the
\* 3 seconds; the 3 seconds have passed and nothing else arrived
C21_Witness ==
    LET L == TypingLog(3, 1, 1) IN
      /\ snapshot = "messaging"
      /\ Len(L) = 2
      /\ L[1].kind = "start" /\ L[2].kind = "stop"
      /\ L[2].id < L[1].id + TypingTimeout
      /\ now > L[1].id + TypingTimeout
      /\ Pending(1, 1) = {}

\* ---- C22

\* C22: no typing timer outlives its session: once the disconnect handler of
\* a socket has run, no timeout armed by that socket is pending, and no table
\* entry holds the handle of one.
C22_NoTimerOutlivesSession ==
    \A s \in Sessions :
        h[s] = Disconnected =>
            \A t \in timeouts :
                /\ t.socket # s
                /\ typingTimers[timerKey(t.conv, UserOf(s))] # t.handle

\* ---- C28

\* C28: at every instant each (conversationId, userId) pair has at most one
\* pending timeout, and it is the one whose handle the pair's table entry
\* holds; a pair without a pending timeout has no table entry.  A timeout
\* that fires therefore deletes its own entry, never that of a newer timer.
C28_OneTimerPerPair ==
    \A c \in {1, 2}, u \in Users :
        /\ Cardinality(Pending(c, u)) <= 1
        /\ \A t \in Pending(c, u) : typingTimers[timerKey(c, u)] = t.handle
        /\ Pending(c, u) = {} <=> typingTimers[timerKey(c, u)] = NoHandle

\* both sockets of user 1 started typing in conversation 1, socket 2 first:
\* one timeout is pending, armed by socket 1
C28_Witness ==
    /\ Len(TypingLog(3, 1, 1)) = 2
    /\ Len(TypingLog(2, 1, 1)) = 1
    /\ \E t \in Pending(1, 1) : t.socket = 1 /\ t.handle = 2

\* ---- C23

\* the markRead of socket s returns
ReadCompletes(s) == h[s].op = "read" /\ h'[s] = Idle

\* the messages of conversation c that others wrote and user u has not read
OwedBy(c, u) ==
    {i \in 1..Len(messages) :
        /\ messages[i].conv = c
        /\ messages[i].sender # u
        /\ u \notin messages[i].readBy}

C23_MarksExactlyTheUnread ==
    \A s \in Sessions :
        (snapshot \in {"chatEvents", "messaging"} /\ ReadCompletes(s)) =>
            LET c == h[s].conv
                u == UserOf(s)
            IN /\ Len(messages') = Len(messages)
               /\ \A i \in 1..Len(messages) :
                     messages'[i] =
                        IF i \in OwedBy(c, u)
                        THEN [messages[i] EXCEPT !.readBy = @ \cup {u}]
                        ELSE messages[i]
               /\ \A i \in 1..Len(messages) :
                     (messages'[i].conv = c /\ messages'[i].sender # u)
                        => u \in messages'[i].readBy
               /\ OwedBy(c, u) = {} => messages' = messages

\* C23: a markRead adds the user to readBy of exactly the messages of the
\* conversation that others wrote and the user had not read, and changes no
\* other message; right after it nothing is left to mark, so a second
\* markRead with no new message in between changes no readBy.
C23_MarkReadExactAndIdempotent == [][C23_MarksExactlyTheUnread]_vars

\* chatEvents: user 1 marked the group read twice; the message of user 2
\* carries both readers, the other two messages are as they were
C23_Witness ==
    /\ snapshot = "chatEvents"
    /\ ops = 2
    /\ \A s \in Sessions : h[s] = Idle /\ inbox[s] = <<>>
    /\ Len(messages) = 3
    /\ messages[1].readBy = {1, 2}
    /\ messages[2].readBy = {1}
    /\ messages[3].readBy = {3}

\* ---- C24

C24_OwnCounterZeroOthersKept ==
    \A s \in Sessions :
        (snapshot \in {"socketEvents", "messaging"} /\ ReadCompletes(s)
         /\ h[s].conv \in ConvIds) =>
            LET c == h[s].conv IN
              /\ conversations'[c].unread[UserOf(s)] = 0
              /\ \A p \in Users \ {UserOf(s)} :
                    conversations'[c].unread[p] = conversations[c].unread[p]

\* C24: when a markRead of a conversation returns, the conversation's
\* unreadCounts entry of the reading user is 0 and the entries of all other
\* users are what they were.
C24_MarkReadResetsOwnCounter == [][C24_OwnCounterZeroOthersKept]_vars

\* socketEvents: user 2 marked the group read; the counters of users 1 and 3
\* still stand
C24_Witness ==
    /\ snapshot = "socketEvents"
    /\ \A s \in Sessions : h[s] = Idle
    /\ conversations[1].unread[2] = 0
    /\ conversations[1].unread[1] = 1
    /\ conversations[1].unread[3] = 2

\* ---- C25

IsReadEvent(e) == e.ev = "read"

C25_NothingReadNothingSent ==
    \A s \in Sessions :
        (snapshot \in {"socketEvents", "messaging"} /\ ReadCompletes(s)
         /\ messages' = messages) =>
            \A o \in Sessions :
                \A i \in 1..Len(NewEvents(o)) : ~IsReadEvent(NewEvents(o)[i])

\* C25: a markRead that transitions no message emits no read-receipt event to
\* anyone; so the second of two markReads in a row is silent.
C25_IdleMarkReadIsSilent == [][C25_NothingReadNothingSent]_vars

\* ---- C29

\* socket s finishes a markMessagesAsRead: of a dm:read or of a join
MarkReadCompletes(s) ==
    /\ snapshot = "messaging"
    /\ h[s].pc = "markRead"
    /\ h'[s] = Idle

\* the messages whose readBy gains user u in the step
Gained(u) ==
    {i \in 1..Len(messages) :
        u \in messages'[i].readBy /\ u \notin messages[i].readBy}

\* the read receipts socket o gets in the step
NewReceipts(o) ==
    {i \in 1..Len(NewEvents(o)) : IsReadEvent(NewEvents(o)[i])}

C29_ReceiptCarriesWhatChanged ==
    \A s \in Sessions :
        MarkReadCompletes(s) =>
            \A o \in Sessions :
                /\ Cardinality(NewReceipts(o)) <= 1
                /\ \A i \in NewReceipts(o) :
                      /\ NewEvents(o)[i].ids = Gained(UserOf(s))
                      /\ NewEvents(o)[i].sender = UserOf(s)
                      /\ NewEvents(o)[i].conv = h[s].conv
                /\ (Gained(UserOf(s)) # {} /\ h[s].conv \in rooms[o])
                      => NewReceipts(o) # {}
                /\ Gained(UserOf(s)) = {} => NewReceipts(o) = {}

FailsValidation(s) ==
    \E c \in ConvInputs :
        /\ ~isValidId(c)
        /\ \/ MessagesReadStart(s, c)
           \/ MessageSendStart(s, c, Hello)
           \/ DmSendStart(s, c, Hello)

\* the handler of socket s ends on a lookup that finds no conversation of
\* the user
FailsAuthorization(s) ==
    /\ h[s].pc = "find" /\ Steps(s)
    /\ storeUp
    /\ findConversation(h[s].conv, UserOf(s)) = NoDoc

\* the persistence operation the handler of socket s waits for throws
FailsPersistence(s) ==
    /\ h[s].op # "idle" /\ h[s].pc # "emit" /\ Steps(s)
    /\ ~storeUp

HasError(s) == \E i \in 1..Len(NewEvents(s)) : NewEvents(s)[i].ev = "error"

C26_FailureAnswered ==
    \A s \in Sessions :
        (/\ snapshot \in {"chatEvents", "messaging"}
         /\ FailsValidation(s) \/ FailsAuthorization(s) \/ FailsPersistence(s))
            => HasError(s)

\* C26: the step in which a handler invocation fails, for its payload, for a
\* missing authorization or for a persistence operation that throws, emits
\* an error event to the requesting socket.
C26_EveryFailureEmitsError == [][C26_FailureAnswered]_vars

\* ---- C27

\* the create of socket s resolves after the other side's row went in
LosesCreationRace(s) ==
    /\ snapshot = "chatEvents"
    /\ h[s].op = "direct" /\ h[s].pc = "create" /\ Steps(s)
    /\ storeUp
    /\ findBySlug(DirectSlug(UserOf(s), h[s].target)) # NoDoc

C27_LoserGoesOnWithExisting ==
    \A s \in Sessions :
        LosesCreationRace(s) =>
            /\ h'[s].op = "direct" /\ h'[s].pc = "ready"
            /\ h'[s].doc = findBySlug(DirectSlug(UserOf(s), h[s].target))

\* C27: a getOrCreateDirect whose insert conflicts with the unique slug goes
\* on with the existing conversation: it is not dropped, and its next step
\* joins the caller to that conversation's room and answers with the ready
\* event carrying the existing id.
C27_LostRaceCompletes == [][C27_LoserGoesOnWithExisting]_vars

\* ---- C30

\* a persistence operation of the send of socket s throws
SendFailsOnStore(s) ==
    /\ snapshot \in {"chatEvents", "socketEvents"}
    /\ h[s].op = "send" /\ h[s].pc \in {"find", "create", "update"} /\ Steps(s)
    /\ ~storeUp

C30_FailedSendLeavesNothing ==
    \A s \in Sessions :
        SendFailsOnStore(s) =>
            /\ \A i \in 1..Len(messages') :
                  h[s].msg = NoMessage \/ messages'[i] # h[s].msg
            /\ conversations' = conversations
            /\ HasError(s)

\* C30: a send that fails on a persistence operation, at whichever step,
\* leaves no Message row of its own and no change of the conversation behind,
\* and the sender gets an error event; so no Message row exists without its
\* effects on the conversation.
C30_NoPartialSend == [][C30_FailedSendLeavesNothing]_vars

\* ---- C31

\* the newest message of conversation c
Newest(c) ==
    messages[CHOOSE i \in MessagesOf(c) : \A j \in MessagesOf(c) : j <= i]

\* lastMessage as the send of message m writes it
SummaryOf(m) ==
    [content |-> IF snapshot = "socketEvents" THEN preview(m.content, m.atts)
                 ELSE m.content,
     sender |-> m.sender, at |-> m.id]

\* C31: while no send is in progress, the lastMessage summary of every
\* conversation that has a message describes its message with the greatest
\* id, also after two sends whose persistence steps interleaved.
C31_LastMessageIsNewest ==
    (/\ snapshot \in {"chatEvents", "socketEvents"}
     /\ \A s \in Sessions : h[s].op # "send")
        => \A c \in ConvIds :
              MessagesOf(c) # {} => conversations[c].last = SummaryOf(Newest(c))

\* ---- C32

\* the customer-facing send of socket s runs from its create to its end
CustomerSendEmits(s) ==
    /\ snapshot = "sessionChat"
    /\ h[s].op \in {"send", "tableSend"} /\ h[s].pc = "emit" /\ Steps(s)

IsCustomerMessage(e) == e.ev = "customerMessage"

C32_NotificationIsSupplementary ==
    /\ \A o \in Sessions :
          \A i \in 1..Len(NewEvents(o)) :
              IsCustomerMessage(NewEvents(o)[i]) =>
                  \E s \in Sessions :
                      /\ CustomerSendEmits(s)
                      /\ h[s].role = "customer"
                      /\ h[s].msg.id \in 1..Len(messages)
                      /\ messages[h[s].msg.id] = h[s].msg
                      /\ \/ h[s].conv \notin rooms[o]
                         \/ \E j \in 1..(i - 1) :
                               NewEvents(o)[j] = NewMessageEvent(h[s].msg)
    /\ \A s \in Sessions :
          CustomerSendEmits(s) =>
              /\ \A o \in Sessions :
                    h[s].conv \in rooms[o] => HasNew(o, NewMessageEvent(h[s].msg))
              /\ ~HasError(s)

\* C32: chat:customer:message goes out only in the step of a send whose
\* sender role is customer, whose message is persisted, and after that step
\* broadcast the message to its room; and whatever happens to the
\* notification, the room gets the message and the sender gets no error.
C32_NotificationNeverFailsTheSend == [][C32_NotificationIsSupplementary]_vars

\* ---- C33
\* the number of times user u appears in the participants array
Appearances(arr, u) == Cardinality({i \in 1..Len(arr) : arr[i] = u})

AllStaffId == CHOOSE c \in ConvIds : conversations[c].slug = ALL_STAFF_SLUG

SelfTarget(s) ==
    \/ DirectGetOrCreateStart(s, UserOf(s))
    \/ ChatDirectGetOrCreateStart(s, UserOf(s))

C34_DirectPairStep ==
    /\ \A c \in 1..Len(conversations') :
          conversations'[c].type = "direct" =>
              Cardinality(conversations'[c].participants) = 2
    /\ \A c \in ConvIds :
          conversations[c].type = "direct" =>
              conversations'[c].participants = conversations[c].participants
    /\ \A s \in Sessions :
          SelfTarget(s) => HasError(s) /\ h'[s].op = "idle"

\* C34: every persisted direct conversation has exactly two distinct
\* participants, which never change, and a get-or-create whose target is the
\* requester is answered with an error and starts no creation.
C34_DirectConversationsArePairs == [][C34_DirectPairStep]_vars

\* ---- C35
\* C35: while no handler is in progress, the unreadCounts entry of every
\* participant of every conversation is the number of messages of the
\* conversation that others sent and whose readBy lacks that participant.
C35_UnreadCountsMatchReadBy ==
    (/\ snapshot \in {"socketEvents", "messaging"}
     /\ \A s \in Sessions : h[s].op = "idle")
        => \A c \in ConvIds : \A u \in conversations[c].participants :
              conversations[c].unread[u] = Cardinality(OwedBy(c, u))

\* ---- C36
\* a markRead of socket s, not a participant of the conversation it names,
\* completes
StrangerReadCompletes(s) ==
    ReadCompletes(s) /\ ~IsParticipant(UserOf(s), h[s].conv)

C36_ReadersAreParticipantsStep ==
    /\ \A i \in 1..Len(messages') :
          messages'[i].readBy \subseteq conversations'[messages'[i].conv].participants
    /\ \A s \in Sessions :
          StrangerReadCompletes(s) =>
              /\ messages' = messages
              /\ conversations' = conversations
              /\ \A o \in Sessions :
                    \A i \in 1..Len(NewEvents(o)) : ~IsReadEvent(NewEvents(o)[i])

\* C36: the readBy of a message holds participants of its conversation only,
\* and a markRead by a user who is not a participant changes no readBy and no
\* unreadCounts entry and sends no read receipt.
C36_OnlyParticipantsMarkRead == [][C36_ReadersAreParticipantsStep]_vars

\* ---- C37
IsTypingEvent(e) == e.ev = "typing"

\* a dm:typing:start or dm:typing:stop of a socket whose user is not a
\* participant of the conversation it names
StrangerTypes(s, c) ==
    /\ ~IsParticipant(UserOf(s), c)
    /\ DmTypingStart(s, c) \/ DmTypingStop(s, c)

C37_TypingFromParticipantsStep ==
    snapshot = "messaging" =>
        /\ \A o \in Sessions : \A i \in 1..Len(NewEvents(o)) :
              IsTypingEvent(NewEvents(o)[i]) =>
                  IsParticipant(NewEvents(o)[i].sender, NewEvents(o)[i].conv)
        /\ \A s \in Sessions, c \in {1, 2} :
              StrangerTypes(s, c) =>
                  /\ inbox' = inbox
                  /\ timeouts' = timeouts
                  /\ typingTimers' = typingTimers

\* C37: a typing start or stop, explicit or by timeout, reaches a room only
\* when the user it names is a participant of the conversation; the typing
\* signal of a non-participant reaches no session and arms no timer.
C37_OnlyParticipantsType == [][C37_TypingFromParticipantsStep]_vars

\* ---- C38
\* user u is online and still has a connected session after the step
StaysConnected(u) ==
    /\ isOnline[u]
    /\ \E s \in Sessions :
          UserOf(s) = u /\ h'[s].op \notin {"disconnect", "disconnected"}

C38_PresenceStep ==
    \A u \in Users :
        StaysConnected(u) =>
            /\ isOnline'[u]
            /\ \A o \in Sessions : ~HasNew(o, OfflineEvent(u))

\* C38: while at least one session of a user is connected, the user's
\* isOnline flag stays true and no offline status is broadcast for the user.
C38_OnlineWhileAnySessionConnected == [][C38_PresenceStep]_vars

\* ---- C39
\* C39: any two orders persisted by order:submit on the same day, concurrent
\* submissions included, carry distinct order numbers.
C39_OrderNumbersDistinct ==
    \A i, j \in 1..Len(orders) :
        i # j => orders[i].orderNumber # orders[j].orderNumber

\* ---- C40
\* the active sessions of table t
ActiveOn(t) ==
    {k \in 1..Len(tableSessions) :
        tableSessions[k].tableId = t /\ tableSessions[k].status = "active"}

\* C40: while no session start or end is in progress, a table with at least
\* one active session is occupied and names a current session; so ending one
\* session never frees a table on which another session is still active.
C40_OccupiedWhileSessionActive ==
    (\A s \in Sessions : h[s].op \notin {"sessionStart", "sessionEnd"})
        => \A t \in Tables :
              ActiveOn(t) # {} =>
                  /\ tables[t].status = "occupied"
                  /\ tables[t].currentSessionId # 0

====
